---- MODULE Spec2Model ----
(***************************************************************************)
(* A model of three annotator components of libtextclassifier:             *)
(*   - Normalizer      (annotator/lookup/normalizer.cc)                    *)
(*   - LookupEngine    (annotator/lookup/lookup-engine.cc)                 *)
(*   - NumberAnnotator (annotator/number/number.cc)                        *)
(*                                                                         *)
(* Text is modelled as the code sees it: a std::string is a sequence of    *)
(* bytes (0..255), a UnicodeText is a sequence of codepoints (integers),   *)
(* and the two are converted by UTF-8 encoding and decoding.  64-bit       *)
(* accumulators are kept as decimal digit sequences so that they can be    *)
(* compared with INT64_MAX exactly.                                        *)
(***************************************************************************)
EXTENDS Integers, Sequences, FiniteSets, TLC

VARIABLES
    phase,                  \* "build" (dictionary under construction) | "done"
    \* ---- Normalizer ----
    norm_call,              \* the arguments of the last Normalize call
    norm_output,            \* the std::string it returned (bytes)
    original_indices,       \* the caller's index vector after the call
    \* ---- LookupEngine ----
    entries,                \* std::vector<ClassificationResult> entries_
    ngram_to_entry_index,   \* std::unordered_map<std::string, std::vector<int>>
    lookup_call,            \* the arguments of the last query
    lookup_result,          \* what the last query returned
    added,                  \* history: the n-gram list of each AddEntry call
    queries,                \* the concurrent FindMatches calls in progress
    \* ---- NumberAnnotator ----
    number_call,            \* the arguments of the last call
    number_result           \* what the last call returned

vars == << phase, norm_call, norm_output, original_indices, entries,
           ngram_to_entry_index, lookup_call, lookup_result, added, queries,
           number_call, number_result >>

normVars == << norm_call, norm_output, original_indices >>

lookupVars == << entries, ngram_to_entry_index, lookup_call, lookup_result,
                added, queries >>

numberVars == << number_call, number_result >>

\* the elements of a sequence
Range(seq) == { seq[i] : i \in DOMAIN seq }

-----------------------------------------------------------------------------
(* Generic helpers *)

Min(a, b) == IF a <= b THEN a ELSE b

Max(a, b) == IF a >= b THEN a ELSE b

\* the sequences over S of length 0..n
SeqsUpTo(S, n) == UNION { [1..k -> S] : k \in 0..n }

RECURSIVE Concat(_)
\* the concatenation of a sequence of sequences
Concat(ss) == IF ss = << >> THEN << >> ELSE Head(ss) \o Concat(Tail(ss))

-----------------------------------------------------------------------------
(* UTF-8 *)

\* IsTrailByte: a continuation byte 10xxxxxx
IsTrailByte(b) == b >= 128 /\ b < 192

\* GetNumBytesForUTF8Char: the length announced by the four high bits
GetNumBytesForUTF8Char(b) ==
    LET hi == b \div 16
    IN  IF hi < 12 THEN 1 ELSE IF hi < 14 THEN 2 ELSE IF hi = 14 THEN 3 ELSE 4

\* a Utf8CharLength without the fallback: a trail byte gets a length that no
\* input can hold, so that Normalize stops at it
Utf8CharLengthRejectingTrail(first_byte) ==
    IF IsTrailByte(first_byte) THEN 5 ELSE GetNumBytesForUTF8Char(first_byte)

\* normalizer.cc Utf8CharLength: 1 as a fallback on a trail byte
Utf8CharLength(first_byte) ==
    IF IsTrailByte(first_byte) THEN 1 ELSE GetNumBytesForUTF8Char(first_byte)

\* the byte at position i of a std::string; data()[size()] is the terminator 0
ByteAt(s, i) == IF i <= Len(s) THEN s[i] ELSE 0

\* UnicodeText::const_iterator::operator*: decodes without validating
ValidCharToRune(s, i) ==
    LET b1 == ByteAt(s, i)
        b2 == ByteAt(s, i + 1)
        b3 == ByteAt(s, i + 2)
        b4 == ByteAt(s, i + 3)
    IN  IF b1 < 128 THEN b1
        ELSE IF b1 < 224 THEN (b1 % 32) * 64 + (b2 % 64)
        ELSE IF b1 < 240 THEN (b1 % 16) * 4096 + (b2 % 64) * 64 + (b3 % 64)
        ELSE (b1 % 8) * 262144 + (b2 % 64) * 4096 + (b3 % 64) * 64 + (b4 % 64)

RECURSIVE DecodeFrom(_, _)
\* iterating a UnicodeText from byte i: operator* then operator++
DecodeFrom(s, i) ==
    IF i > Len(s) THEN << >>
    ELSE << ValidCharToRune(s, i) >>
             \o DecodeFrom(s, i + GetNumBytesForUTF8Char(s[i]))

\* UTF8ToUnicodeText followed by iteration: the codepoints of a byte string
UTF8ToUnicodeText(s) == DecodeFrom(s, 1)

\* UnicodeText::push_back: the UTF-8 encoding of one codepoint
EncodeCodepoint(c) ==
    IF c < 128 THEN << c >>
    ELSE IF c < 2048 THEN << 192 + (c \div 64), 128 + (c % 64) >>
    ELSE IF c < 65536
         THEN << 224 + (c \div 4096), 128 + ((c \div 64) % 64), 128 + (c % 64) >>
    ELSE << 240 + (c \div 262144), 128 + ((c \div 4096) % 64),
            128 + ((c \div 64) % 64), 128 + (c % 64) >>

RECURSIVE ToUTF8String(_)
\* UnicodeText::ToUTF8String / UTF8Substring: the bytes of a codepoint sequence
ToUTF8String(cps) ==
    IF cps = << >> THEN << >>
    ELSE IF Len(cps) = 1 THEN EncodeCodepoint(cps[1])
    ELSE LET half == Len(cps) \div 2
         IN  ToUTF8String(SubSeq(cps, 1, half))
                 \o ToUTF8String(SubSeq(cps, half + 1, Len(cps)))

RECURSIVE IsValidFrom(_, _)
\* UnicodeText::is_valid: every character is a lead byte followed by the
\* announced number of trail bytes
IsValidFrom(s, i) ==
    IF i > Len(s) THEN TRUE
    ELSE LET n == GetNumBytesForUTF8Char(s[i])
         IN  /\ ~IsTrailByte(s[i])
             /\ i + n - 1 <= Len(s)
             /\ \A k \in 1..(n - 1) : IsTrailByte(s[i + k])
             /\ IsValidFrom(s, i + n)

is_valid(s) == IsValidFrom(s, 1)

\* UniLib::ToLower (ICU build: u_tolower) on the codepoints the model uses
ToLower(codepoint) ==
    IF codepoint >= 65 /\ codepoint <= 90 THEN codepoint + 32      \* A-Z
    ELSE IF codepoint >= 192 /\ codepoint <= 222 /\ codepoint # 215
         THEN codepoint + 32                                      \* Latin-1 capitals
    ELSE codepoint

-----------------------------------------------------------------------------
(* Normalizer *)

\* GetNormalizationTable(): a few representative rows of the generated
\* table (source character -> replacement string), as UTF-8 bytes
\*   U+00C9 E-acute -> "E",  U+00E9 e-acute -> "e",  U+FB01 fi ligature -> "fi"
NormalizationTable ==
    { << << 195, 137 >>, << 69 >> >>,
      << << 195, 169 >>, << 101 >> >>,
      << << 239, 172, 129 >>, << 102, 105 >> >> }

\* table.find(utf8_char): the replacement, or the character itself
TableLookup(utf8_char) ==
    IF \E row \in NormalizationTable : row[1] = utf8_char
    THEN (CHOOSE row \in NormalizationTable : row[1] = utf8_char)[2]
    ELSE utf8_char

RECURSIVE FoldCodepoints(_)
\* the fold_case loop: ToLower on each codepoint, pushed back into a UnicodeText
FoldCodepoints(cps) ==
    IF cps = << >> THEN << >>
    ELSE EncodeCodepoint(ToLower(Head(cps))) \o FoldCodepoints(Tail(cps))

\* normalized_chars for one input character (normalizer.cc 64-80)
NormalizedChars(utf8_char, fold_case) ==
    LET substituted == TableLookup(utf8_char)
    IN  IF fold_case THEN FoldCodepoints(UTF8ToUnicodeText(substituted))
        ELSE substituted

\* a loop that maps every output byte to an input offset of its own
PushedByteOffsets(normalized_chars, codepoint_start_index) ==
    [i \in 1..Len(normalized_chars) |-> codepoint_start_index + i - 1]

\* the entries pushed for one input character: codepoint_start_index, once
\* for each byte of normalized_chars
PushedIndices(normalized_chars, codepoint_start_index) ==
    [i \in 1..Len(normalized_chars) |-> codepoint_start_index]

RECURSIVE NormalizeLoop(_, _, _, _, _)
\* the while loop of Normalize from byte offset codepoint_start_index (0-based);
\* returns the output and the index vector without the final entry
NormalizeLoop(input, fold_case, codepoint_start_index, output, indices) ==
    LET bytes_left == Len(input) - codepoint_start_index
    IN  IF bytes_left <= 0 THEN [output |-> output, indices |-> indices]
        ELSE LET utf8_char_length == Utf8CharLength(input[codepoint_start_index + 1])
             IN  IF utf8_char_length > bytes_left
                 THEN \* invalid bytes: stripped from the output
                      [output |-> output, indices |-> indices]
                 ELSE LET utf8_char == SubSeq(input, codepoint_start_index + 1,
                                              codepoint_start_index + utf8_char_length)
                          normalized_chars == NormalizedChars(utf8_char, fold_case)
                      IN  NormalizeLoop(input, fold_case,
                              codepoint_start_index + utf8_char_length,
                              output \o normalized_chars,
                              indices \o PushedIndices(normalized_chars,
                                                       codepoint_start_index))

\* a Normalize that appends to what the caller's vector holds
KeptIndices(before) == before

\* what original_indices->clear() leaves in the caller's vector
ClearedIndices(before) == << >>

\* Normalize(input, fold_case, original_indices): `requested` is
\* original_indices != nullptr, `before` what the vector held at the call
Normalize(input, fold_case, requested, before) ==
    LET start == IF requested THEN ClearedIndices(before) ELSE before
        r == NormalizeLoop(input, fold_case, 0, << >>, start)
    IN  [output |-> r.output,
         original_indices |-> IF requested
                              THEN Append(r.indices, Len(input))
                              ELSE before]

\* Normalize(text, fold_case) with no index map
NormalizeText(input, fold_case) == Normalize(input, fold_case, FALSE, << >>).output

-----------------------------------------------------------------------------
(* Collaborators of the annotators: boundary stripping and tokenization *)

\* the codepoints of context in the half-open codepoint span (0-based)
SpanText(context, span) == SubSeq(context, span[1] + 1, span[2])

RECURSIVE CountLeading(_, _)
\* the number of leading codepoints of cps that belong to ignored
CountLeading(cps, ignored) ==
    IF cps = << >> \/ Head(cps) \notin ignored THEN 0
    ELSE 1 + CountLeading(Tail(cps), ignored)

RECURSIVE CountTrailing(_, _)
\* the number of trailing codepoints of cps that belong to ignored
CountTrailing(cps, ignored) ==
    IF cps = << >> \/ cps[Len(cps)] \notin ignored THEN 0
    ELSE 1 + CountTrailing(SubSeq(cps, 1, Len(cps) - 1), ignored)

\* FeatureProcessor::StripBoundaryCodepoints: shrinks span from both ends
\* over the ignored codepoints; a span stripped to nothing collapses onto
\* its start
StripBoundaryCodepoints(context, span, ignored_prefix, ignored_suffix) ==
    IF span[1] >= span[2] THEN span
    ELSE LET cps == SpanText(context, span)
             start_offset == CountLeading(cps, ignored_prefix)
             end_offset == CountTrailing(cps, ignored_suffix)
         IN  IF span[1] + start_offset < span[2] - end_offset
             THEN << span[1] + start_offset, span[2] - end_offset >>
             ELSE << span[1], span[1] >>

RECURSIVE JoinWords(_)
\* the text of a word sequence: the words separated by single spaces
JoinWords(words) ==
    IF words = << >> THEN << >>
    ELSE IF Len(words) = 1 THEN Head(words)
    ELSE Head(words) \o << 32 >> \o JoinWords(Tail(words))

RECURSIVE TokensFrom(_, _)
\* FeatureProcessor::Tokenize on whitespace-separated text: one Token
\* {value, start, end} per word, in text order, offsets in codepoints
TokensFrom(words, offset) ==
    IF words = << >> THEN << >>
    ELSE << [value |-> Head(words), start |-> offset,
             end |-> offset + Len(Head(words))] >>
         \o TokensFrom(Tail(words), offset + Len(Head(words)) + 1)

Tokenize(words) == TokensFrom(words, 0)

-----------------------------------------------------------------------------
(* LookupEngine *)

\* collection_: the label the engine was constructed with
EngineCollection == "engine"

\* the FeatureProcessor's ignored span boundary codepoints: '.'
LookupBoundaryCodepoints == { 46 }

\* StripBoundaryCodepointsAndNormalize: the stripped span and the
\* case-folded normalization of its text ("" for an empty stripped span)
StripBoundaryCodepointsAndNormalize(context, span) ==
    LET stripped_span == StripBoundaryCodepoints(context, span,
                             LookupBoundaryCodepoints, LookupBoundaryCodepoints)
    IN  [span |-> stripped_span,
         text |-> IF stripped_span[1] = stripped_span[2] THEN << >>
                  ELSE NormalizeText(ToUTF8String(SpanText(context, stripped_span)),
                                     TRUE)]

\* an AddEntry that pushes the entry index without looking at the list's
\* last element
AppendedEntryIndex(index, stripped_ngram, entry_index) ==
    [k \in (DOMAIN index) \cup { stripped_ngram } |->
        IF k = stripped_ngram
        THEN Append(IF k \in DOMAIN index THEN index[k] ELSE << >>, entry_index)
        ELSE index[k]]

\* an AddEntry that overwrites the posting list of the n-gram
ReplacedEntryIndex(index, stripped_ngram, entry_index) ==
    [k \in (DOMAIN index) \cup { stripped_ngram } |->
        IF k = stripped_ngram THEN << entry_index >> ELSE index[k]]

\* the posting-list update of AddEntry for one stripped n-gram (lines 47-50)
PushEntryIndex(index, stripped_ngram, entry_index) ==
    LET entry_indices == IF stripped_ngram \in DOMAIN index
                         THEN index[stripped_ngram] ELSE << >>
        updated == IF entry_indices = << >>
                      \/ entry_indices[Len(entry_indices)] # entry_index
                   THEN Append(entry_indices, entry_index)
                   ELSE entry_indices
    IN  [k \in (DOMAIN index) \cup { stripped_ngram } |->
            IF k = stripped_ngram THEN updated ELSE index[k]]

\* an AddEntry without the empty() test, which files the entry under the
\* n-gram as given
IndexedUnstripped(index, ngram, entry_index) ==
    PushEntryIndex(index, ngram, entry_index)

\* the index after AddEntry's loop skipped an empty n-gram (continue)
SkippedNgram(index, ngram, entry_index) == index

\* an AddEntry that never tests is_valid
NoInvalidNgram(ngram) == FALSE

\* the n-gram failed to convert to unicode
IsInvalidNgram(ngram) == ~is_valid(ngram)

\* the body of AddEntry's loop for one n-gram (a std::string, bytes)
AddNgram(index, ngram, entry_index) ==
    IF ngram = << >> THEN SkippedNgram(index, ngram, entry_index)
    ELSE IF IsInvalidNgram(ngram) THEN index
    ELSE LET ngram_unicode == UTF8ToUnicodeText(ngram)
             stripped == StripBoundaryCodepointsAndNormalize(
                             ngram_unicode, << 0, Len(ngram_unicode) >>)
         IN  IF stripped.text # << >>
             THEN PushEntryIndex(index, stripped.text, entry_index)
             ELSE index

RECURSIVE AddNgrams(_, _, _)
\* AddEntry's loop over the n-gram list
AddNgrams(index, ngrams, entry_index) ==
    IF ngrams = << >> THEN index
    ELSE AddNgrams(AddNgram(index, Head(ngrams), entry_index),
                   Tail(ngrams), entry_index)

\* a FindTokenMatches that copies the stored entry and forgets to set its
\* collection
UntaggedEntry(entry) == entry

\* the copy of a stored entry that FindTokenMatches emplaces
TaggedEntry(entry) == [entry EXCEPT !.collection = EngineCollection]

\* a FindTokenMatches that walks the posting list from its end
PostingEntryFromEnd(posting, i) == posting[Len(posting) + 1 - i]

\* the entry index the i-th iteration of FindTokenMatches' loop visits
PostingEntryAt(posting, i) == posting[i]

RECURSIVE FindTokenMatchesLoop(_, _, _, _, _, _)
\* the for loop of FindTokenMatches over the posting list from position i
FindTokenMatchesLoop(store, posting, i, max_num_matches, result_index, results) ==
    IF i > Len(posting) THEN results
    ELSE IF Len(results) = max_num_matches THEN results
    ELSE IF PostingEntryAt(posting, i) \in result_index
         THEN FindTokenMatchesLoop(store, posting, i + 1, max_num_matches,
                                   result_index, results)
    ELSE FindTokenMatchesLoop(store, posting, i + 1, max_num_matches,
             result_index \cup { PostingEntryAt(posting, i) },
             Append(results,
                    TaggedEntry(store[PostingEntryAt(posting, i) + 1])))

\* a FindTokenMatches that looks the token up with operator[], which inserts
\* an empty posting list for an absent n-gram
IndexAfterSubscript(index, token) ==
    [k \in (DOMAIN index) \cup { token } |->
        IF k \in DOMAIN index THEN index[k] ELSE << >>]

\* the n-gram index after FindTokenMatches looked the token up with find()
IndexAfterFind(index, token) == index

\* FindTokenMatches with empty result_index and results, as FindMatches calls it
FindTokenMatches(store, index, token, max_num_matches) ==
    IF token \notin DOMAIN index THEN << >>
    ELSE FindTokenMatchesLoop(store, index[token], 1, max_num_matches, {}, << >>)

\* FindMatches: the results and the span as modified (stripped)
FindMatches(store, index, max_num_matches, context, span) ==
    LET stripped == StripBoundaryCodepointsAndNormalize(context, span)
    IN  [results |-> FindTokenMatches(store, index, stripped.text, max_num_matches),
         span |-> stripped.span]

\* a ChunkInternal that never skips a start
NeverOverlapsPreviousMatch(start, minimum_start) == FALSE

\* the test `start < minimum_start` that makes ChunkInternal skip a start
OverlapsPreviousMatch(start, minimum_start) == start < minimum_start

\* a ChunkInternal that resumes at the last token of the match (off by one)
MinimumStartAtLastToken(end) == end - 1

\* the value ChunkInternal gives minimum_start after a match ending at token
\* index end (exclusive)
MinimumStartAfter(end) == end

RECURSIVE EndCandidates(_, _, _, _, _)
\* the loop over the possible ends: for each end the codepoint index reached
\* by advancing end_codepoint_idx up to tokens[end - 1].end
EndCandidates(tokens, end, last_end, end_codepoint_idx, acc) ==
    IF end > last_end THEN acc
    ELSE LET idx == Max(end_codepoint_idx, tokens[end].end)
         IN  EndCandidates(tokens, end + 1, last_end, idx,
                           Append(acc, [end |-> end, end_codepoint_idx |-> idx]))

\* a ChunkInternal that records the span it gave to FindMatches
UnstrippedWindow(window, stripped_codepoint_span) == window

\* the span ChunkInternal records: stripped_codepoint_span as FindMatches
\* left it
RecordedSpan(window, stripped_codepoint_span) == stripped_codepoint_span

RECURSIVE ScanCandidates(_, _, _, _, _, _, _)
\* the loop over the candidates backwards from position i: the first window
\* with at least one match, as an AnnotatedSpan plus its end token index
ScanCandidates(store, index, max_num_matches, context, start_codepoint_idx, candidates, i) ==
    IF i < 1 THEN [found |-> FALSE]
    ELSE LET m == FindMatches(store, index, max_num_matches, context,
                      << start_codepoint_idx, candidates[i].end_codepoint_idx >>)
         IN  IF m.results # << >>
             THEN [found |-> TRUE, end |-> candidates[i].end,
                   span |-> RecordedSpan(
                       << start_codepoint_idx, candidates[i].end_codepoint_idx >>,
                       m.span),
                   classification |-> m.results]
             ELSE ScanCandidates(store, index, max_num_matches, context,
                                 start_codepoint_idx, candidates, i - 1)

RECURSIVE ScanCandidatesForward(_, _, _, _, _, _, _)
\* the same loop run forwards from position i (shortest window first)
ScanCandidatesForward(store, index, max_num_matches, context, start_codepoint_idx, candidates, i) ==
    IF i > Len(candidates) THEN [found |-> FALSE]
    ELSE LET m == FindMatches(store, index, max_num_matches, context,
                      << start_codepoint_idx, candidates[i].end_codepoint_idx >>)
         IN  IF m.results # << >>
             THEN [found |-> TRUE, end |-> candidates[i].end,
                   span |-> RecordedSpan(
                       << start_codepoint_idx, candidates[i].end_codepoint_idx >>,
                       m.span),
                   classification |-> m.results]
             ELSE ScanCandidatesForward(store, index, max_num_matches, context,
                                        start_codepoint_idx, candidates, i + 1)

\* a ChunkInternal that tries the candidates in increasing order
ShortestMatch(store, index, max_num_matches, context, start_codepoint_idx, candidates) ==
    ScanCandidatesForward(store, index, max_num_matches, context,
                          start_codepoint_idx, candidates, 1)

\* the candidate ChunkInternal records for one start: the scan starts at the
\* last (longest) candidate
LongestMatch(store, index, max_num_matches, context, start_codepoint_idx, candidates) ==
    ScanCandidates(store, index, max_num_matches, context, start_codepoint_idx,
                   candidates, Len(candidates))

RECURSIVE ChunkLoop(_, _, _, _, _, _, _, _, _, _)
\* the loop of ChunkInternal over the starts (TokenIndex start, 0-based).
\* out.result is the vector of AnnotatedSpan; out.considered lists, for each
\* start that was not skipped, the start and the end token index of the
\* window that won there (0 when none did)
ChunkLoop(store, index, context, tokens, max_num_tokens, max_num_matches, start, minimum_start, start_codepoint_idx, out) ==
    IF start >= Len(tokens) THEN out
    ELSE IF OverlapsPreviousMatch(start, minimum_start)
         THEN ChunkLoop(store, index, context, tokens, max_num_tokens,
                        max_num_matches, start + 1, minimum_start,
                        start_codepoint_idx, out)
    ELSE LET idx == Max(start_codepoint_idx, tokens[start + 1].start)
             candidates == EndCandidates(tokens, start + 1,
                               Min(start + max_num_tokens, Len(tokens)),
                               idx, << >>)
             m == LongestMatch(store, index, max_num_matches, context, idx,
                               candidates)
         IN  IF m.found
             THEN ChunkLoop(store, index, context, tokens, max_num_tokens,
                      max_num_matches, start + 1, MinimumStartAfter(m.end), idx,
                      [result |-> Append(out.result,
                                     [span |-> m.span,
                                      classification |-> m.classification]),
                       considered |-> Append(out.considered,
                                     [start |-> start, end |-> m.end])])
             ELSE ChunkLoop(store, index, context, tokens, max_num_tokens,
                      max_num_matches, start + 1, minimum_start, idx,
                      [result |-> out.result,
                       considered |-> Append(out.considered,
                                     [start |-> start, end |-> 0])])

\* ChunkInternal(context_unicode, tokens, max_num_tokens, max_num_matches, result)
ChunkInternal(store, index, context, tokens, max_num_tokens, max_num_matches) ==
    ChunkLoop(store, index, context, tokens, max_num_tokens, max_num_matches,
              0, 0, 0, [result |-> << >>, considered |-> << >>])

\* ClassifyTextInternal: FindMatches with max_num_matches = 1 on the selection
ClassifyTextInternal(store, index, context, selection_indices) ==
    LET m == FindMatches(store, index, 1, context, selection_indices)
    IN  IF m.results # << >>
        THEN [ok |-> TRUE, classification_result |-> m.results[1]]
        ELSE [ok |-> FALSE]

-----------------------------------------------------------------------------
(* 64-bit accumulators as decimal digit sequences (most significant digit    *)
(* first, no leading zero, zero is the empty sequence)                       *)

\* acc * 10 + digit
TimesTenPlus(acc, digit) ==
    IF acc = << >> /\ digit = 0 THEN << >> ELSE Append(acc, digit)

RECURSIVE DigitsLess(_, _, _)
\* a < b for digit sequences of the same length, compared from position i
DigitsLess(a, b, i) ==
    IF i > Len(a) THEN FALSE
    ELSE IF a[i] # b[i] THEN a[i] < b[i]
    ELSE DigitsLess(a, b, i + 1)

\* a > b
BigGreater(a, b) ==
    IF Len(a) # Len(b) THEN Len(a) > Len(b) ELSE DigitsLess(b, a, 1)

\* a <= b
BigLeq(a, b) == ~BigGreater(a, b)

RECURSIVE StripLeadingZeros(_)
StripLeadingZeros(a) ==
    IF a # << >> /\ Head(a) = 0 THEN StripLeadingZeros(Tail(a)) ELSE a

\* the digit of a that has weight 10^k (0 beyond its length)
DigitAtWeight(a, k) == IF k < Len(a) THEN a[Len(a) - k] ELSE 0

RECURSIVE AddFrom(_, _, _, _)
\* the digits of a + b from weight k upwards, with the carry into weight k
AddFrom(a, b, k, carry) ==
    IF k >= Len(a) /\ k >= Len(b)
    THEN IF carry = 0 THEN << >> ELSE << carry >>
    ELSE LET t == DigitAtWeight(a, k) + DigitAtWeight(b, k) + carry
         IN  Append(AddFrom(a, b, k + 1, t \div 10), t % 10)

\* a + b
BigAdd(a, b) == StripLeadingZeros(AddFrom(a, b, 0, 0))

\* a * 10^k
BigShift(a, k) == IF a = << >> THEN << >> ELSE a \o [i \in 1..k |-> 0]

\* INT64_MAX = 9223372036854775807
INT64_MAX == << 9, 2, 2, 3, 3, 7, 2, 0, 3, 6, 8, 5, 4, 7, 7, 5, 8, 0, 7 >>

\* a guard that forgets the division: INT64_MAX - 10 = 9223372036854775797
OverflowLimitWithoutDivision ==
    << 9, 2, 2, 3, 3, 7, 2, 0, 3, 6, 8, 5, 4, 7, 7, 5, 7, 9, 7 >>

\* the guard's limit INT64_MAX / 10 - 10 = 922337203685477570
OverflowLimit == << 9, 2, 2, 3, 3, 7, 2, 0, 3, 6, 8, 5, 4, 7, 7, 5, 7, 0 >>

\* the largest k for which 10^k fits a signed 64-bit integer (10^18)
MaxDenominatorExponent == Len(INT64_MAX) - 1

-----------------------------------------------------------------------------
(* NumberAnnotator: ConsumeAndParseNumber *)

IsAsciiDigit(codepoint) == codepoint >= 48 /\ codepoint <= 57

\* '-' or '+'
IsSign(codepoint) == codepoint = 45 \/ codepoint = 43

\* '.' or ','
IsSeparator(codepoint) == codepoint = 46 \/ codepoint = 44

\* enum class State
PARSING_WHOLE_PART == 1

PARSING_FLOATING_PART == 2

PARSING_DONE == 3

\* ParseNextNumericCodepoint: FALSE when the guard refuses the digit
CanAccumulate(current_value) == ~BigGreater(current_value, OverflowLimit)

\* ParseNextNumericCodepoint: *current_value * 10 + codepoint - '0'
Accumulate(current_value, codepoint) == TimesTenPlus(current_value, codepoint - 48)

RECURSIVE ConsumeSigns(_, _, _, _)
\* the loop over the leading '-' / '+' run of text[it..it_end): the position
\* after the run and the sign it leaves
ConsumeSigns(text, it, it_end, sign) ==
    IF it # it_end /\ IsSign(text[it + 1])
    THEN ConsumeSigns(text, it + 1, it_end, IF text[it + 1] = 45 THEN -1 ELSE 1)
    ELSE [it |-> it, sign |-> sign]

\* the locals of ConsumeAndParseNumber when its while loop is entered.
\* it, it_begin, it_end are codepoint offsets into text; denominator_exponent
\* is k for decimal_result_denominator = 10^k; returned_begin records the
\* `return it_begin` inside the loop and guard_fired that
\* ParseNextNumericCodepoint returned false; running is FALSE once the loop
\* is left
ParserStart(text, it_begin, it_end) ==
    LET s == ConsumeSigns(text, it_begin, it_end, 1)
    IN  [it_begin |-> it_begin, it_end |-> it_end, it |-> s.it, sign |-> s.sign,
         state |-> PARSING_WHOLE_PART, int_result |-> << >>,
         decimal_result |-> << >>, denominator_exponent |-> 0,
         number_digits |-> 0, has_decimal |-> FALSE, guard_fired |-> FALSE,
         returned_begin |-> FALSE, running |-> s.it # it_end]

\* leaving the switch with state # PARSING_DONE: ++number_digits; ++it; and
\* the loop test
Advance(p) ==
    [p EXCEPT !.number_digits = @ + 1, !.it = @ + 1,
              !.running = (p.it + 1 # p.it_end)]

\* a loop that goes on after a codepoint that ends the number
ConsumedAnyway(p) == Advance(p)

\* leaving the switch with state = PARSING_DONE: break
Break(p) == [p EXCEPT !.state = PARSING_DONE, !.running = FALSE]

\* a parser that takes the separator itself for a decimal
EnterFloatingPartWithDecimal(p) ==
    [p EXCEPT !.state = PARSING_FLOATING_PART, !.has_decimal = TRUE]

\* the whole part met '.' or ',': state = State::PARSING_FLOATING_PART, and
\* has_decimal stays as it is
EnterFloatingPart(p) == [p EXCEPT !.state = PARSING_FLOATING_PART]

\* one iteration of the while loop on the codepoint *it
ParserStep(p, codepoint) ==
    IF p.state = PARSING_WHOLE_PART
    THEN IF IsAsciiDigit(codepoint)
         THEN IF ~CanAccumulate(p.int_result)
              THEN [p EXCEPT !.guard_fired = TRUE, !.returned_begin = TRUE,
                             !.running = FALSE]
              ELSE Advance([p EXCEPT !.int_result = Accumulate(@, codepoint)])
         ELSE IF IsSeparator(codepoint)
              THEN Advance(EnterFloatingPart(p))
         ELSE Break(p)
    ELSE IF p.state = PARSING_FLOATING_PART
    THEN IF IsAsciiDigit(codepoint)
         THEN IF ~CanAccumulate(p.decimal_result)
              THEN Break([p EXCEPT !.has_decimal = TRUE, !.guard_fired = TRUE])
              ELSE Advance([p EXCEPT !.has_decimal = TRUE,
                                     !.decimal_result = Accumulate(@, codepoint),
                                     !.denominator_exponent = @ + 1])
         ELSE Break(p)
    ELSE Break(p)

RECURSIVE ParserRun(_, _)
\* the while loop run to its end
ParserRun(text, p) ==
    IF p.running THEN ParserRun(text, ParserStep(p, text[p.it + 1])) ELSE p

\* the value int_result + decimal_result * 1.0 / decimal_result_denominator
\* that the code stores in *double_result, as an exact fraction: the integer
\* int_sign * int_digits plus decimal_result / 10^denominator_exponent.
\* defined is FALSE when decimal_result_denominator *= 10 overflowed a signed
\* 64-bit integer (undefined behaviour: the value may be anything)
DoubleResult(p) ==
    [int_sign |-> p.sign, int_digits |-> p.int_result,
     fraction |-> p.decimal_result, exponent |-> p.denominator_exponent,
     defined |-> p.denominator_exponent <= MaxDenominatorExponent]

\* what ConsumeAndParseNumber returns once the loop is left: the iterator,
\* and the outputs when it is not it_begin
ParserFinish(p) ==
    IF p.returned_begin \/ p.number_digits = 0
    THEN [it |-> p.it_begin, has_decimal |-> p.has_decimal,
          guard_fired |-> p.guard_fired]
    ELSE [it |-> p.it, has_decimal |-> p.has_decimal,
          guard_fired |-> p.guard_fired,
          int_result |-> [sign |-> p.sign, digits |-> p.int_result],
          double_result |-> DoubleResult(p)]

\* ConsumeAndParseNumber(it_begin, it_end, ...)
ConsumeAndParseNumber(text, it_begin, it_end) ==
    ParserFinish(ParserRun(text, ParserStart(text, it_begin, it_end)))

-----------------------------------------------------------------------------
(* NumberAnnotator: ParseNumber, FindAll, FindPercentages, ClassifyText *)

\* NumberAnnotatorOptions: allowed_prefix_codepoints '$'
allowed_prefix_codepoints == { 36 }

\* NumberAnnotatorOptions: allowed_suffix_codepoints '%'
allowed_suffix_codepoints == { 37 }

\* NumberAnnotatorOptions: ignored_prefix_span_boundary_codepoints '('
ignored_prefix_span_boundary_codepoints == { 40 }

\* NumberAnnotatorOptions: ignored_suffix_span_boundary_codepoints ')' '.' '!'
ignored_suffix_span_boundary_codepoints == { 41, 46, 33 }

\* the percentage suffixes of the options' sorted-strings table (bytes):
\* "%" and " pct"
PercentageSuffixes == { << 37 >>, << 32, 112, 99, 116 >> }

RECURSIVE ConsumePrefix(_, _, _)
\* the loop over the allowed prefix codepoints: the position after them
ConsumePrefix(text, it, it_end) ==
    IF it # it_end /\ text[it + 1] \in allowed_prefix_codepoints
    THEN ConsumePrefix(text, it + 1, it_end)
    ELSE it

\* a suffix loop that tolerates every trailing codepoint
NoInvalidSuffixCodepoint(codepoint) == FALSE

\* the test that makes the suffix loop fail the parsing: the codepoint is
\* neither an allowed suffix nor an ignored suffix boundary codepoint
IsInvalidSuffixCodepoint(codepoint) ==
    /\ codepoint \notin allowed_suffix_codepoints
    /\ codepoint \notin ignored_suffix_span_boundary_codepoints

\* a suffix loop that looks at the first codepoint after the number only
ConsumeFirstSuffix(text, it, it_end, num_suffix_codepoints) ==
    IF it = it_end
    THEN [valid_suffix |-> TRUE, num_suffix_codepoints |-> num_suffix_codepoints]
    ELSE IF text[it + 1] \in allowed_suffix_codepoints
         THEN [valid_suffix |-> TRUE,
               num_suffix_codepoints |-> num_suffix_codepoints + 1]
    ELSE [valid_suffix |-> ~IsInvalidSuffixCodepoint(text[it + 1]),
          num_suffix_codepoints |-> num_suffix_codepoints]

RECURSIVE ConsumeSuffix(_, _, _, _)
\* the loop over the suffix codepoints: valid_suffix and the number of
\* allowed suffix codepoints counted
ConsumeSuffix(text, it, it_end, num_suffix_codepoints) ==
    IF it = it_end
    THEN [valid_suffix |-> TRUE, num_suffix_codepoints |-> num_suffix_codepoints]
    ELSE IF text[it + 1] \in allowed_suffix_codepoints
         THEN ConsumeSuffix(text, it + 1, it_end, num_suffix_codepoints + 1)
    ELSE IF IsInvalidSuffixCodepoint(text[it + 1])
         THEN [valid_suffix |-> FALSE,
               num_suffix_codepoints |-> num_suffix_codepoints]
    ELSE ConsumeSuffix(text, it + 1, it_end, num_suffix_codepoints)

\* NumberAnnotator::ParseNumber(text, ...): ok is the returned bool
ParseNumber(text) ==
    LET original_span == << 0, Len(text) >>
        stripped_span == StripBoundaryCodepoints(text, original_span,
                             ignored_prefix_span_boundary_codepoints,
                             ignored_suffix_span_boundary_codepoints)
        num_stripped_end == original_span[2] - stripped_span[2]
        it_end == Len(text) - num_stripped_end
        it_start == ConsumePrefix(text, stripped_span[1], it_end)
        parsed == ConsumeAndParseNumber(text, it_start, it_end)
    IN  IF parsed.it = it_start
        THEN [ok |-> FALSE, guard_fired |-> parsed.guard_fired]
        ELSE LET suffix == ConsumeSuffix(text, parsed.it, it_end, 0)
             IN  [ok |-> suffix.valid_suffix,
                  guard_fired |-> parsed.guard_fired,
                  int_result |-> parsed.int_result,
                  double_result |-> parsed.double_result,
                  has_decimal |-> parsed.has_decimal,
                  num_prefix_codepoints |-> it_start,
                  num_suffix_codepoints |->
                      suffix.num_suffix_codepoints + num_stripped_end]

\* the offsets at which a token of the context starts: a codepoint other
\* than ' ' at the start of the text or after a ' '
TokenStarts(context) ==
    { i \in 0..(Len(context) - 1) :
        context[i + 1] # 32 /\ (i = 0 \/ context[i] = 32) }

\* the offset at which the token that starts at `start` ends
TokenEnd(context, start) ==
    CHOOSE e \in (start + 1)..Len(context) :
        /\ e = Len(context) \/ context[e + 1] = 32
        /\ \A k \in (start + 1)..e : context[k] # 32

\* FeatureProcessor::Tokenize on whitespace: the maximal runs of codepoints
\* other than ' ', in text order, with their codepoint offsets
TokenizeText(context) ==
    LET starts == TokenStarts(context)
        nth(k) == CHOOSE s \in starts : Cardinality({ t \in starts : t < s }) = k - 1
    IN  [k \in 1..Cardinality(starts) |->
            [value |-> SubSeq(context, nth(k) + 1, TokenEnd(context, nth(k))),
             start |-> nth(k), end |-> TokenEnd(context, nth(k))]]

\* a FindAll that leaves out the token's offset in the context
TokenRelativeSpan(token, parsed) ==
    [span |-> << parsed.num_prefix_codepoints,
                 Len(token.value) - parsed.num_suffix_codepoints >>,
     classification |->
        << [collection |-> "Number", score |-> "score",
            numeric_value |-> parsed.int_result,
            numeric_double_value |-> parsed.double_result,
            priority_score |-> IF parsed.has_decimal
                               THEN "float_number_priority_score"
                               ELSE "priority_score"] >>]

\* the AnnotatedSpan FindAll pushes for a token that ParseNumber accepted
NumberSpan(token, parsed) ==
    [span |-> << token.start + parsed.num_prefix_codepoints,
                 token.end - parsed.num_suffix_codepoints >>,
     classification |->
        << [collection |-> "Number", score |-> "score",
            numeric_value |-> parsed.int_result,
            numeric_double_value |-> parsed.double_result,
            priority_score |-> IF parsed.has_decimal
                               THEN "float_number_priority_score"
                               ELSE "priority_score"] >>]

RECURSIVE ParseTokens(_, _)
\* the loop of FindAll over the tokens: result with the spans pushed
ParseTokens(tokens, result) ==
    IF tokens = << >> THEN result
    ELSE LET parsed == ParseNumber(Head(tokens).value)
         IN  ParseTokens(Tail(tokens),
                 IF parsed.ok THEN Append(result, NumberSpan(Head(tokens), parsed))
                 ELSE result)

\* StringPiece prefix test on bytes
IsBytePrefix(piece, bytes) ==
    Len(piece) <= Len(bytes) /\ SubSeq(bytes, 1, Len(piece)) = piece

\* SortedStringsTable::LongestPrefixMatch: match_length in bytes, -1 for none
LongestPrefixMatch(pieces, bytes) ==
    LET lengths == { Len(piece) : piece \in
                       { q \in pieces : IsBytePrefix(q, bytes) } }
    IN  IF lengths = {} THEN -1
        ELSE CHOOSE n \in lengths : \A m \in lengths : m <= n

\* NumberAnnotator::GetPercentSuffixLength(context, index_codepoints), with
\* the pieces of the options' percentage suffix table
GetPercentSuffixLength(pieces, context, index_codepoints) ==
    IF index_codepoints >= Len(context) THEN -1
    ELSE LET suffix_context ==
                 ToUTF8String(SubSeq(context, index_codepoints + 1, Len(context)))
             match_length == LongestPrefixMatch(pieces, suffix_context)
         IN  IF match_length = -1 THEN match_length
             ELSE Len(UTF8ToUnicodeText(SubSeq(suffix_context, 1, match_length)))

\* a FindPercentages that forgets to look at the collection
AnyClassification(res) == res.classification # << >>

\* the test FindPercentages makes before it looks for a suffix
IsNumberResult(res) ==
    /\ res.classification # << >>
    /\ res.classification[1].collection = "Number"

\* the body of FindPercentages' loop for one AnnotatedSpan
UpgradeToPercentage(pieces, context, res) ==
    IF ~IsNumberResult(res) THEN res
    ELSE LET match_length ==
                 GetPercentSuffixLength(pieces, context, res.span[2])
         IN  IF match_length > 0
             THEN [span |-> << res.span[1], res.span[2] + match_length >>,
                   classification |->
                       [res.classification EXCEPT
                           ![1].collection = "Percentage",
                           ![1].priority_score = "percentage_priority_score"]]
             ELSE res

\* NumberAnnotator::FindPercentages(context, result)
FindPercentages(pieces, context, result) ==
    [i \in 1..Len(result) |-> UpgradeToPercentage(pieces, context, result[i])]

\* a FindAll that tests options->enabled() only
IsSwitchedOff(options, annotation_usecase) == ~options.enabled

\* the test that makes FindAll return at once: annotation disabled, or the
\* bit 1 << annotation_usecase not set in enabled_annotation_usecases
IsDisabled(options, annotation_usecase) ==
    \/ ~options.enabled
    \/ (options.enabled_annotation_usecases \div (2 ^ annotation_usecase)) % 2 = 0

\* NumberAnnotator::FindAll(context, annotation_usecase, result): the list
\* after the token loop and the list the call leaves
FindAll(context, annotation_usecase, options, result) ==
    IF IsDisabled(options, annotation_usecase)
    THEN [parsed |-> result, result |-> result]
    ELSE LET parsed == ParseTokens(TokenizeText(context), result)
         IN  [parsed |-> parsed,
              result |-> IF options.enable_percentage
                         THEN FindPercentages(options.percentage_pieces,
                                              context, parsed)
                         ELSE parsed]

\* a ClassifyText that compares the start of the span only
SameStart(span, first, stripped) == span[1] + first = stripped[1]

\* the comparison of a result span, shifted by selection_indices.first, with
\* the stripped selection
SameSpan(span, first, stripped) ==
    /\ span[1] + first = stripped[1]
    /\ span[2] + first = stripped[2]

RECURSIVE FirstCoinciding(_, _, _, _)
\* the loop of ClassifyText over the results from position i
FirstCoinciding(results, i, first, stripped) ==
    IF i > Len(results) THEN [ok |-> FALSE]
    ELSE IF results[i].classification = << >>
         THEN FirstCoinciding(results, i + 1, first, stripped)
    ELSE IF SameSpan(results[i].span, first, stripped)
         THEN [ok |-> TRUE,
               classification_result |-> results[i].classification[1]]
    ELSE FirstCoinciding(results, i + 1, first, stripped)

\* NumberAnnotator::ClassifyText(context, selection_indices, usecase, ...)
NumberClassifyText(context, selection_indices, annotation_usecase, options) ==
    LET substring_selected == SpanText(context, selection_indices)
        results == FindAll(substring_selected, annotation_usecase, options,
                           << >>).result
        stripped_selection_indices ==
            StripBoundaryCodepoints(context, selection_indices,
                ignored_prefix_span_boundary_codepoints,
                ignored_suffix_span_boundary_codepoints)
    IN  FirstCoinciding(results, 1, selection_indices[1],
                        stripped_selection_indices)

-----------------------------------------------------------------------------
(* Bounds and input sets *)

\* the most AddEntry calls of a build phase
MaxEntries == 2

\* the most tokens of a text given to Chunk
MaxTokens == 3

\* Chunk is called with max_num_tokens in 1..MaxNumTokens
MaxNumTokens == 3

\* queries are called with max_num_matches in 0..MaxNumMatches
MaxNumMatches == 2

\* the most tokens of a text given to FindMatches and ClassifyText
MaxSelectionTokens == 2

\* the words of the texts: "n", "y", "Y."
Vocabulary == { << 110 >>, << 121 >>, << 89, 46 >> }

\* the n-gram lists given to AddEntry (std::string, bytes):
\*   ["n y"], ["n y y", "N Y."], ["y y"], ["y", "", "Y.", <C3>, "y"]
\* (<C3> is a lead byte without its trail byte: not valid UTF-8)
NgramLists ==
    { << << 110, 32, 121 >> >>,
      << << 110, 32, 121, 32, 121 >>, << 78, 32, 89, 46 >> >>,
      << << 121, 32, 121 >> >>,
      << << 121 >>, << >>, << 89, 46 >>, << 195 >>, << 121 >> >> }

\* the n-gram lists of the build-phase claims: those above, the empty list,
\* the list of one empty string, and ".", "n", "y", ".N", "Y", "..": n-grams
\* of boundary codepoints around n-grams that come back, in another form,
\* after another n-gram
BuildNgramLists ==
    NgramLists \cup { << << >> >>, << >>,
                      << << 46 >>, << 110 >>, << 121 >>, << 46, 78 >>,
                         << 89 >>, << 46, 46 >> >> }

\* the threads that query the frozen dictionary at the same time
NumThreads == 2

Threads == 1..NumThreads

\* the FindMatches calls the threads make: whole texts that are indexed in
\* another case, with a boundary codepoint, or not at all
ConcurrentQueries ==
    { [context |-> << 110, 32, 89, 46 >>, span |-> << 0, 4 >>,
       max_num_matches |-> 2],
      [context |-> << 110, 32, 89, 46 >>, span |-> << 0, 4 >>,
       max_num_matches |-> 1],
      [context |-> << 89, 46 >>, span |-> << 0, 2 >>, max_num_matches |-> 2],
      [context |-> << 110 >>, span |-> << 0, 1 >>, max_num_matches |-> 2] }

\* the entry given to the k-th AddEntry call: the engine only stores and
\* copies an entry, so the caller's entries are told apart by a serial id;
\* their collection differs from the engine's
EntryOfCall(k) == [collection |-> "stored", id |-> k]

\* the longest digit run of a token given to the number parser
MaxDigits == 25

\* the most tokens of a text given to NumberAnnotator::FindAll
MaxNumberTokens == 2

\* the most tokens of a text given to NumberAnnotator::ClassifyText
MaxClassifyTokens == 3

\* the most bytes of an input given to Normalize
MaxInputLen == 3

\* n times the digit codepoint c
DigitRun(c, n) == [i \in 1..n |-> c]

\* the codepoints of a digit sequence
DigitText(digits) == [i \in 1..Len(digits) |-> digits[i] + 48]

\* the digit runs of the parser's inputs: none, "0", "3", "14", 18 and 19
\* and MaxDigits nines, MaxDigits zeros, and around the guard's limit
\* 922337203685477570 9 (accepted), 922337203685477570 9 9 (the second 9
\* refused) and 922337203685477571 0 (the 0 refused)
DigitRuns ==
    { << >>, << 48 >>, << 51 >>, << 49, 52 >>,
      DigitRun(57, Len(INT64_MAX) - 1), DigitRun(57, Len(INT64_MAX)),
      DigitRun(57, MaxDigits), DigitRun(48, MaxDigits),
      DigitText(OverflowLimit) \o << 57 >>,
      DigitText(OverflowLimit) \o << 57, 57 >>,
      DigitText(BigAdd(OverflowLimit, << 1 >>)) \o << 48 >> }

\* the sign runs: none, "-", "+", "+-", "-+"
SignRuns == { << >>, << 45 >>, << 43 >>, << 43, 45 >>, << 45, 43 >> }

\* the fractional parts: none, or '.' or ',' and a digit run
FractionRuns ==
    { << >> } \cup { << sep >> \o run : sep \in { 46, 44 }, run \in DigitRuns }

\* what follows the number in the parser's input: nothing, "a", ".3"
TailRuns == { << >>, << 97 >>, << 46, 51 >> }

\* the inputs of ConsumeAndParseNumber
ParserInputs ==
    { sign \o whole \o fraction \o tail :
        sign \in SignRuns, whole \in DigitRuns, fraction \in FractionRuns,
        tail \in TailRuns }

\* the words of the texts given to FindAll: "14", "-3.5", "7%", "($3)",
\* "pct", "a", "3a", MaxDigits nines, "0." and MaxDigits nines, "-,", "3%a",
\* "1000000000", "3,", "$%", "()"
NumberVocabulary ==
    { << 49, 52 >>, << 45, 51, 46, 53 >>, << 55, 37 >>, << 40, 36, 51, 41 >>,
      << 112, 99, 116 >>, << 97 >>, << 51, 97 >>,
      DigitRun(57, MaxDigits), << 48, 46 >> \o DigitRun(57, MaxDigits),
      << 45, 44 >>, << 51, 37, 97 >>, << 49 >> \o DigitRun(48, 9),
      << 51, 44 >>, << 36, 37 >>, << 40, 41 >> }

\* the words of the texts given to ClassifyText: "14", "-3.5", "(7%)", "pct",
\* "a"
ClassifyVocabulary ==
    { << 49, 52 >>, << 45, 51, 46, 53 >>, << 40, 55, 37, 41 >>,
      << 112, 99, 116 >>, << 97 >> }

\* "23 asdf 3.14 pct asdf"
ExampleSelectionText ==
    << 50, 51, 32, 97, 115, 100, 102, 32, 51, 46, 49, 52, 32, 112, 99, 116, 32,
       97, 115, 100, 102 >>

\* the NumberAnnotatorOptions of the calls: everything enabled, percentages
\* off, the annotator off, and usecase 1 not among the enabled usecases
NumberOptions ==
    { [enabled |-> TRUE, enabled_annotation_usecases |-> 3,
       enable_percentage |-> TRUE, percentage_pieces |-> PercentageSuffixes],
      [enabled |-> TRUE, enabled_annotation_usecases |-> 3,
       enable_percentage |-> FALSE, percentage_pieces |-> PercentageSuffixes],
      [enabled |-> FALSE, enabled_annotation_usecases |-> 3,
       enable_percentage |-> TRUE, percentage_pieces |-> PercentageSuffixes],
      [enabled |-> TRUE, enabled_annotation_usecases |-> 1,
       enable_percentage |-> TRUE, percentage_pieces |-> PercentageSuffixes] }

\* other percentage suffix tables an options structure can carry: none,
\* "%" alone, " p" and " pct", and one whose suffix " 14" reads like a token
PercentagePieceTables ==
    { {}, { << 37 >> }, { << 32, 112 >>, << 32, 112, 99, 116 >> },
      { << 37 >>, << 32, 49, 52 >> }, PercentageSuffixes }

\* the options of the calls that differ in their percentage suffix table
PieceOptions ==
    { [enabled |-> TRUE, enabled_annotation_usecases |-> 3,
       enable_percentage |-> TRUE, percentage_pieces |-> pieces] :
        pieces \in PercentagePieceTables }

\* a "Number" span of the value 7 that an earlier call left in the vector
PriorNumberSpan(span) ==
    [span |-> span,
     classification |->
        << [collection |-> "Number", score |-> "score",
            numeric_value |-> [sign |-> 1, digits |-> << 7 >>],
            numeric_double_value |->
                [int_sign |-> 1, int_digits |-> << 7 >>, fraction |-> << >>,
                 exponent |-> 0, defined |-> TRUE],
            priority_score |-> "priority_score"] >>]

\* what the caller's result vector holds when FindAll is called: nothing;
\* a span of another annotator and a span without classification; or
\* "Number" spans of an earlier call, one of them ending beyond any text
PriorResults ==
    { << >>,
      << [span |-> << 0, 1 >>,
          classification |-> << [collection |-> "other", score |-> "score",
                                 priority_score |-> "priority_score"] >>],
         [span |-> << 0, 2 >>, classification |-> << >>] >>,
      << PriorNumberSpan(<< 0, 1 >>), PriorNumberSpan(<< 0, 1000 >>) >> }

\* the bytes of the inputs given to Normalize: 'A', 'I', 'b', the lead bytes C3
\* and EF, the trail bytes 89, AC, 81
NormalizeBytes == { 65, 73, 98, 195, 239, 137, 172, 129 }

\* what the caller's index vector holds when Normalize is called
PriorIndices == { << >>, << 7, 7 >> }

\* the half-open codepoint spans of a text of n codepoints
SpansOf(n) == { << a, b >> : a \in 0..n, b \in 0..n }

-----------------------------------------------------------------------------
(* The state machine *)

NoCall == [op |-> "none"]

Init ==
    /\ phase = "build"
    /\ norm_call = NoCall
    /\ norm_output = << >>
    /\ original_indices = << >>
    /\ entries = << >>
    /\ ngram_to_entry_index = << >>
    /\ lookup_call = NoCall
    /\ lookup_result = NoCall
    /\ added = << >>
    /\ queries = << >>
    /\ number_call = NoCall
    /\ number_result = NoCall

\* an AddEntry that takes entries_.size() after the push_back
EntryIndexAfterPush(store) == Len(store) + 1

\* entry_index, the size of the entry store before the push_back
EntryIndexOf(store) == Len(store)

\* LookupEngine::AddEntry(ngrams, entry)
AddEntry(ngrams, entry) ==
    /\ phase = "build"
    /\ Len(entries) < MaxEntries
    /\ LET entry_index == EntryIndexOf(entries)
       IN  /\ entries' = Append(entries, entry)
           /\ ngram_to_entry_index' =
                  AddNgrams(ngram_to_entry_index, ngrams, entry_index)
    /\ added' = Append(added, ngrams)
    /\ UNCHANGED << phase, lookup_call, lookup_result, queries, normVars,
                    numberVars >>

AddEntryStep ==
    phase = "build" /\ \E ngrams \in NgramLists :
        AddEntry(ngrams, EntryOfCall(Len(entries) + 1))

\* AddEntry with any list of BuildNgramLists
AddEntryAnyStep ==
    phase = "build" /\ \E ngrams \in BuildNgramLists :
        AddEntry(ngrams, EntryOfCall(Len(entries) + 1))

\* the queries with thread t's FindMatches call in state call
WithQuery(t, call) ==
    [u \in (DOMAIN queries) \cup { t } |-> IF u = t THEN call ELSE queries[u]]

\* thread t enters FindMatches: its locals are created and the span is
\* stripped and normalized (lines 162-167); the build phase is over
QueryStart(t, q) ==
    /\ phase \in { "build", "query" }
    /\ t \notin DOMAIN queries
    /\ phase' = "query"
    /\ queries' = WithQuery(t,
           [pc |-> "find", context |-> q.context, span |-> q.span,
            max_num_matches |-> q.max_num_matches,
            token |-> StripBoundaryCodepointsAndNormalize(q.context, q.span).text,
            i |-> 1, result_index |-> {}, results |-> << >>])
    /\ UNCHANGED << entries, ngram_to_entry_index, added, lookup_call,
                    lookup_result, normVars, numberVars >>

QueryStartStep ==
    \E t \in Threads, q \in ConcurrentQueries : QueryStart(t, q)

\* thread t looks its token up in the n-gram index (lines 176-179)
QueryFind(t) ==
    /\ phase = "query"
    /\ t \in DOMAIN queries
    /\ queries[t].pc = "find"
    /\ ngram_to_entry_index' = IndexAfterFind(ngram_to_entry_index,
                                              queries[t].token)
    /\ queries' = WithQuery(t,
           [queries[t] EXCEPT !.pc =
               IF queries[t].token \in DOMAIN ngram_to_entry_index
               THEN "loop" ELSE "returned"])
    /\ UNCHANGED << phase, entries, added, lookup_call, lookup_result,
                    normVars, numberVars >>

QueryFindStep == \E t \in Threads : QueryFind(t)

\* one iteration of thread t's loop over the posting list (lines 180-191)
QueryIterate(t) ==
    /\ phase = "query"
    /\ t \in DOMAIN queries
    /\ queries[t].pc = "loop"
    /\ LET q == queries[t]
           posting == ngram_to_entry_index[q.token]
       IN  queries' = WithQuery(t,
               IF q.i > Len(posting) THEN [q EXCEPT !.pc = "returned"]
               ELSE IF Len(q.results) = q.max_num_matches
                    THEN [q EXCEPT !.pc = "returned"]
               ELSE IF PostingEntryAt(posting, q.i) \in q.result_index
                    THEN [q EXCEPT !.i = q.i + 1]
               ELSE [q EXCEPT !.i = q.i + 1,
                        !.result_index = q.result_index
                            \cup { PostingEntryAt(posting, q.i) },
                        !.results = Append(q.results,
                            TaggedEntry(entries[PostingEntryAt(posting, q.i) + 1]))])
    /\ UNCHANGED << phase, entries, ngram_to_entry_index, added, lookup_call,
                    lookup_result, normVars, numberVars >>

QueryIterateStep == \E t \in Threads : QueryIterate(t)

\* LookupEngine::ChunkInternal on the frozen dictionary
Chunk(words, max_num_tokens, max_num_matches) ==
    /\ phase = "build"
    /\ LET context == JoinWords(words)
           tokens == Tokenize(words)
           out == ChunkInternal(entries, ngram_to_entry_index, context, tokens,
                                max_num_tokens, max_num_matches)
       IN  /\ lookup_call' = [op |-> "Chunk", context |-> context,
                              tokens |-> tokens,
                              max_num_tokens |-> max_num_tokens,
                              max_num_matches |-> max_num_matches]
           /\ lookup_result' = [result |-> out.result,
                                considered |-> out.considered]
    /\ phase' = "done"
    /\ UNCHANGED << entries, ngram_to_entry_index, added, queries, normVars,
                    numberVars >>

ChunkStep ==
    phase = "build" /\ \E words \in SeqsUpTo(Vocabulary, MaxTokens),
       max_num_tokens \in 1..MaxNumTokens,
       max_num_matches \in 0..MaxNumMatches :
        Chunk(words, max_num_tokens, max_num_matches)

\* LookupEngine::FindMatches on a span of a text
FindMatchesCall(words, span, max_num_matches) ==
    /\ phase = "build"
    /\ LET context == JoinWords(words)
           m == FindMatches(entries, ngram_to_entry_index, max_num_matches,
                            context, span)
       IN  /\ lookup_call' = [op |-> "FindMatches", context |-> context,
                              span |-> span,
                              max_num_matches |-> max_num_matches]
           /\ lookup_result' = [results |-> m.results, span |-> m.span]
    /\ phase' = "done"
    /\ UNCHANGED << entries, ngram_to_entry_index, added, queries, normVars,
                    numberVars >>

FindMatchesStep ==
    phase = "build" /\ \E words \in SeqsUpTo(Vocabulary, MaxSelectionTokens),
       max_num_matches \in 0..MaxNumMatches :
        \E span \in SpansOf(Len(JoinWords(words))) :
            /\ span[1] <= span[2]
            /\ FindMatchesCall(words, span, max_num_matches)

\* LookupEngine::ClassifyTextInternal on a selection of a text
ClassifyText(words, selection_indices) ==
    /\ phase = "build"
    /\ LET context == JoinWords(words)
           r == ClassifyTextInternal(entries, ngram_to_entry_index, context,
                                     selection_indices)
       IN  /\ lookup_call' = [op |-> "ClassifyText", context |-> context,
                              selection_indices |-> selection_indices]
           /\ lookup_result' = r
    /\ phase' = "done"
    /\ UNCHANGED << entries, ngram_to_entry_index, added, queries, normVars,
                    numberVars >>

ClassifyTextStep ==
    phase = "build" /\ \E words \in SeqsUpTo(Vocabulary, MaxSelectionTokens) :
        \E selection_indices \in SpansOf(Len(JoinWords(words))) :
            /\ selection_indices[1] <= selection_indices[2]
            /\ ClassifyText(words, selection_indices)

\* ConsumeAndParseNumber is entered on text: the sign run is consumed
ParseBegin(text) ==
    /\ phase = "build"
    /\ number_call = NoCall
    /\ number_call' = [op |-> "ConsumeAndParseNumber", text |-> text]
    /\ number_result' = [pc |-> "loop", locals |-> ParserStart(text, 0, Len(text))]
    /\ UNCHANGED << phase, normVars, lookupVars >>

ParseBeginStep ==
    phase = "build" /\ \E text \in ParserInputs : ParseBegin(text)

\* one iteration of ConsumeAndParseNumber's while loop
ParseCodepoint ==
    /\ number_call.op = "ConsumeAndParseNumber"
    /\ number_result.pc = "loop"
    /\ number_result.locals.running
    /\ number_result' =
          [number_result EXCEPT !.locals =
              ParserStep(@, number_call.text[@.it + 1])]
    /\ UNCHANGED << phase, number_call, normVars, lookupVars >>

\* ConsumeAndParseNumber leaves the loop and returns
ParseReturn ==
    /\ number_call.op = "ConsumeAndParseNumber"
    /\ number_result.pc = "loop"
    /\ ~number_result.locals.running
    /\ number_result' = [pc |-> "returned", locals |-> number_result.locals,
                         returned |-> ParserFinish(number_result.locals)]
    /\ phase' = "done"
    /\ UNCHANGED << number_call, normVars, lookupVars >>

\* NumberAnnotator::FindAll(context, annotation_usecase, result)
NumberFindAll(words, annotation_usecase, options, prior) ==
    /\ phase = "build"
    /\ LET context == JoinWords(words)
           out == FindAll(context, annotation_usecase, options, prior)
       IN  /\ number_call' = [op |-> "FindAll", context |-> context,
                              annotation_usecase |-> annotation_usecase,
                              options |-> options, prior |-> prior]
           /\ number_result' = [ok |-> TRUE, parsed |-> out.parsed,
                                result |-> out.result]
    /\ phase' = "done"
    /\ UNCHANGED << normVars, lookupVars >>

NumberFindAllStep ==
    phase = "build" /\ \E words \in SeqsUpTo(NumberVocabulary, MaxNumberTokens),
       annotation_usecase \in { 0, 1 },
       options \in NumberOptions,
       prior \in PriorResults :
        NumberFindAll(words, annotation_usecase, options, prior)

\* FindAll under each percentage suffix table
NumberFindAllPiecesStep ==
    phase = "build" /\ \E words \in SeqsUpTo(NumberVocabulary, MaxNumberTokens),
       options \in PieceOptions :
        NumberFindAll(words, 0, options, << >>)

\* NumberAnnotator::ClassifyText(context, selection_indices, usecase, ...)
NumberClassify(context, selection_indices, annotation_usecase, options) ==
    /\ phase = "build"
    /\ number_call' = [op |-> "ClassifyText", context |-> context,
                       selection_indices |-> selection_indices,
                       annotation_usecase |-> annotation_usecase,
                       options |-> options]
    /\ number_result' = NumberClassifyText(context, selection_indices,
                                           annotation_usecase, options)
    /\ phase' = "done"
    /\ UNCHANGED << normVars, lookupVars >>

NumberClassifyStep ==
    phase = "build" /\ \E context \in { JoinWords(words) :
                       words \in SeqsUpTo(ClassifyVocabulary, MaxClassifyTokens) }
                   \cup { ExampleSelectionText },
       options \in NumberOptions :
        \E selection_indices \in SpansOf(Len(context)) :
            /\ selection_indices[1] <= selection_indices[2]
            /\ NumberClassify(context, selection_indices, 0, options)

\* Normalizer::Normalize(input, fold_case, original_indices); before is what
\* the caller's vector holds at the call
NormalizeCall(input, fold_case, requested, before) ==
    /\ phase = "build"
    /\ LET r == Normalize(input, fold_case, requested, before)
       IN  /\ norm_call' = [op |-> "Normalize", input |-> input,
                            fold_case |-> fold_case, requested |-> requested,
                            before |-> before]
           /\ norm_output' = r.output
           /\ original_indices' = r.original_indices
    /\ phase' = "done"
    /\ UNCHANGED << lookupVars, numberVars >>

NormalizeStep ==
    phase = "build" /\ \E input \in SeqsUpTo(NormalizeBytes, MaxInputLen),
       fold_case \in BOOLEAN, requested \in BOOLEAN, before \in PriorIndices :
        NormalizeCall(input, fold_case, requested, before)

\* a caller that normalizes, with case folding, the string a case-folding
\* Normalize call returned, reusing its index vector
NormalizeAgain ==
    /\ phase = "done"
    /\ norm_call.op = "Normalize"
    /\ norm_call.fold_case
    /\ LET r == Normalize(norm_output, TRUE, norm_call.requested,
                          original_indices)
       IN  /\ norm_call' = [op |-> "NormalizeAgain", input |-> norm_output,
                            fold_case |-> TRUE,
                            requested |-> norm_call.requested,
                            before |-> original_indices,
                            first_input |-> norm_call.input]
           /\ norm_output' = r.output
           /\ original_indices' = r.original_indices
    /\ phase' = "again"
    /\ UNCHANGED << lookupVars, numberVars >>

\* the Chunk queries over every dictionary a build phase can produce
NextChunk == AddEntryStep \/ ChunkStep

SpecChunk == Init /\ [][NextChunk]_vars

\* the FindMatches queries over every dictionary a build phase can produce
NextFind == AddEntryStep \/ FindMatchesStep

SpecFind == Init /\ [][NextFind]_vars

\* the ClassifyText queries over every dictionary a build phase can produce
NextClassify == AddEntryStep \/ ClassifyTextStep

SpecClassify == Init /\ [][NextClassify]_vars

\* ConsumeAndParseNumber, codepoint by codepoint, over the parser's inputs
NextParse == ParseBeginStep \/ ParseCodepoint \/ ParseReturn

SpecParse == Init /\ [][NextParse]_vars

\* the FindAll calls
NextFindAll == NumberFindAllStep

SpecFindAll == Init /\ [][NextFindAll]_vars

\* the NumberAnnotator::ClassifyText calls
NextNumberClassify == NumberClassifyStep

SpecNumberClassify == Init /\ [][NextNumberClassify]_vars

\* the Normalize calls
NextNormalize == NormalizeStep

SpecNormalize == Init /\ [][NextNormalize]_vars

\* every Normalize call, and a second call on what a case-folding call returned
NextRenormalize == NormalizeStep \/ NormalizeAgain

SpecRenormalize == Init /\ [][NextRenormalize]_vars

\* the build phase over BuildNgramLists, and ClassifyText on what it built
NextBuild == AddEntryAnyStep \/ ClassifyTextStep

SpecBuild == Init /\ [][NextBuild]_vars

\* the build phase, then FindMatches calls of several threads, interleaved
\* statement by statement
NextConcurrent ==
    AddEntryStep \/ QueryStartStep \/ QueryFindStep \/ QueryIterateStep

SpecConcurrent == Init /\ [][NextConcurrent]_vars

\* FindAll on every text under each percentage suffix table
NextPieces == NumberFindAllPiecesStep

SpecPieces == Init /\ [][NextPieces]_vars

\* every operation of the three components
Next ==
    \/ AddEntryStep \/ ChunkStep \/ FindMatchesStep \/ ClassifyTextStep
    \/ ParseBeginStep \/ ParseCodepoint \/ ParseReturn
    \/ NumberFindAllStep \/ NumberClassifyStep \/ NormalizeStep
    \/ NormalizeAgain \/ AddEntryAnyStep
    \/ QueryStartStep \/ QueryFindStep \/ QueryIterateStep
    \/ NumberFindAllPiecesStep

Spec == Init /\ [][Next]_vars

-----------------------------------------------------------------------------
(* Properties of LookupEngine::ChunkInternal (checked under SpecChunk) *)

ChunkReturned == lookup_call.op = "Chunk"

\* the codepoint span ChunkInternal builds for the token window [s, e)
WindowSpan(s, e) ==
    << lookup_call.tokens[s + 1].start, lookup_call.tokens[e].end >>

\* FindMatches on the window [s, e) of the scanned text
WindowLookup(s, e) ==
    FindMatches(entries, ngram_to_entry_index, lookup_call.max_num_matches,
                lookup_call.context, WindowSpan(s, e))

WindowMatches(s, e) == WindowLookup(s, e).results # << >>

\* the last end token index ChunkInternal tries for start s
LastEnd(s) == Min(s + lookup_call.max_num_tokens, Len(lookup_call.tokens))

\* the starts at which a window won, in the order they were resolved
Wins == SelectSeq(lookup_result.considered, LAMBDA c : c.end # 0)

\* C1: no two AnnotatedSpans returned by one Chunk call overlap: a span
\* returned before another ends at or before the start of the other.
C1_NoOverlap ==
    ChunkReturned =>
        \A i, j \in 1..Len(lookup_result.result) :
            i < j => lookup_result.result[i].span[2]
                        <= lookup_result.result[j].span[1]

\* a Chunk call that returned two spans, the second starting right after the
\* token on which the first ends
C1_Witness ==
    /\ ChunkReturned
    /\ Len(lookup_result.result) >= 2
    /\ Len(Wins) >= 2
    /\ Wins[2].start = Wins[1].end

\* C2: at each start Chunk considers, the recorded span comes from the
\* largest end index in s+1..min(s+max_num_tokens, num_tokens) whose window
\* has a match; a shorter window is never recorded when a longer one matches.
C2_LongestMatchWins ==
    ChunkReturned =>
        /\ \A k \in 1..Len(lookup_result.considered) :
              LET c == lookup_result.considered[k]
              IN  /\ c.end # 0 =>
                        /\ c.end \in (c.start + 1)..LastEnd(c.start)
                        /\ WindowMatches(c.start, c.end)
                  /\ \A e \in (c.start + 1)..LastEnd(c.start) :
                        WindowMatches(c.start, e) => c.end >= e
        /\ Len(lookup_result.result) = Len(Wins)
        /\ \A k \in 1..Len(Wins) :
              /\ lookup_result.result[k].span
                    = WindowLookup(Wins[k].start, Wins[k].end).span
              /\ lookup_result.result[k].classification
                    = WindowLookup(Wins[k].start, Wins[k].end).results

\* the "new york" / "new york city" case: a three-token window won at a start
\* where the two-token window matches as well, and it is the only span
C2_Witness ==
    /\ ChunkReturned
    /\ Len(lookup_result.result) = 1
    /\ \E k \in 1..Len(lookup_result.considered) :
          LET c == lookup_result.considered[k]
          IN  /\ c.end = c.start + 3
              /\ WindowMatches(c.start, c.start + 2)

\* C3: Chunk resolves the starts in increasing token order: the returned
\* spans are in strictly increasing order of start, and after a window
\* [s, e) has won no token inside it is used as a start, even when a match
\* begins there.
C3_LeftmostFirst ==
    ChunkReturned =>
        /\ \A i, j \in 1..Len(lookup_result.result) :
              i < j => lookup_result.result[i].span[1]
                          < lookup_result.result[j].span[1]
        /\ \A i, j \in 1..Len(lookup_result.considered) :
              i < j =>
                LET a == lookup_result.considered[i]
                    b == lookup_result.considered[j]
                IN  /\ a.start < b.start
                    /\ a.end # 0 => b.start >= a.end

\* a window [s, e) won although a dictionary match that reaches beyond e
\* begins at a token inside it, and a later span was still returned
C3_Witness ==
    /\ ChunkReturned
    /\ Len(lookup_result.result) >= 2
    /\ \E k \in 1..Len(Wins) :
          \E t \in (Wins[k].start + 1)..(Wins[k].end - 1) :
              \E e \in (Wins[k].end + 1)..LastEnd(t) : WindowMatches(t, e)

-----------------------------------------------------------------------------
(* Properties of LookupEngine::FindMatches (checked under SpecFind) *)

FindMatchesReturned == lookup_call.op = "FindMatches"

\* the n-gram FindMatches looks up: the stripped, case-folded normalization
\* of the span's text
LookupKey ==
    StripBoundaryCodepointsAndNormalize(lookup_call.context, lookup_call.span).text

\* the posting list of the looked up n-gram (empty when it is not indexed)
LookupPosting ==
    IF LookupKey \in DOMAIN ngram_to_entry_index
    THEN ngram_to_entry_index[LookupKey] ELSE << >>

RECURSIVE FirstOccurrences(_, _)
\* the sequence without the repetitions of indices already in seen
FirstOccurrences(posting, seen) ==
    IF posting = << >> THEN << >>
    ELSE IF Head(posting) \in seen THEN FirstOccurrences(Tail(posting), seen)
    ELSE << Head(posting) >>
            \o FirstOccurrences(Tail(posting), seen \cup { Head(posting) })

\* C4: for max_num_matches >= 0 FindMatches returns exactly the first
\* min(max_num_matches, k) entries of the posting list of the span's stripped,
\* case-folded normalization (k distinct indices), in insertion order, none
\* twice, each a copy of the stored entry with the engine's collection; and
\* nothing when the n-gram is not indexed.
C4_FindMatchesPrefix ==
    FindMatchesReturned =>
        LET distinct == FirstOccurrences(LookupPosting, {})
            n == Min(lookup_call.max_num_matches, Len(distinct))
        IN  /\ Len(lookup_result.results) = n
            /\ \A i \in 1..n :
                  lookup_result.results[i]
                    = [collection |-> EngineCollection,
                       id |-> entries[distinct[i] + 1].id]
            /\ LookupKey \notin DOMAIN ngram_to_entry_index
                  => lookup_result.results = << >>

\* two entries registered under the same n-gram, both returned in insertion
\* order for a span that differs from the n-gram in case and boundary
C4_Witness ==
    /\ FindMatchesReturned
    /\ lookup_call.max_num_matches >= 2
    /\ Len(LookupPosting) = 2
    /\ Len(lookup_result.results) = 2
    /\ lookup_result.results[1].id < lookup_result.results[2].id
    /\ lookup_result.span # lookup_call.span

-----------------------------------------------------------------------------
(* Properties of ConsumeAndParseNumber (checked under SpecParse) *)

ParserCalled == number_call.op = "ConsumeAndParseNumber"

ParserReturned == ParserCalled /\ number_result.pc = "returned"

RECURSIVE RunLength(_, _, _)
\* the length of the longest run of codepoints of `among` in text from the
\* 0-based offset i on
RunLength(text, i, among) ==
    IF i < Len(text) /\ text[i + 1] \in among
    THEN 1 + RunLength(text, i + 1, among) ELSE 0

\* the value of a run of ASCII digits
DigitsValue(run) == StripLeadingZeros([i \in 1..Len(run) |-> run[i] - 48])

\* how a numeric text reads: the sign its run of '-' / '+' ends with, the
\* digits of the integer part, and the digits after a '.' or ',' that follows
ReadNumber(text) ==
    LET signs == RunLength(text, 0, { 45, 43 })
        whole == RunLength(text, signs, 48..57)
        separated == /\ signs + whole < Len(text)
                     /\ IsSeparator(text[signs + whole + 1])
        fractional == IF separated
                      THEN RunLength(text, signs + whole + 1, 48..57) ELSE 0
    IN  [sign |-> IF signs > 0 /\ text[signs] = 45 THEN -1 ELSE 1,
         integer_part |-> DigitsValue(SubSeq(text, signs + 1, signs + whole)),
         fractional_part |->
             DigitsValue(SubSeq(text, signs + whole + 2,
                                signs + whole + 1 + fractional)),
         fractional_digit_count |-> fractional]

\* a signed decimal value times 10^k, as the pair of its positive and its
\* negative part
Signed(sign, magnitude) ==
    IF sign = 1 THEN [pos |-> magnitude, neg |-> << >>]
    ELSE [pos |-> << >>, neg |-> magnitude]

\* a + b on such pairs
SignedSum(a, b) == [pos |-> BigAdd(a.pos, b.pos), neg |-> BigAdd(a.neg, b.neg)]

\* a = b on such pairs
SameValue(a, b) == BigAdd(a.pos, b.neg) = BigAdd(b.pos, a.neg)

\* 10^exponent times the value the code stores in *double_result
StoredTimesPower(double_result) ==
    SignedSum(Signed(double_result.int_sign,
                     BigShift(double_result.int_digits, double_result.exponent)),
              Signed(1, double_result.fraction))

\* 10^fractional_digit_count times
\* sign * (integer_part + fractional_part / 10^fractional_digit_count)
ReadTimesPower(n) ==
    Signed(n.sign, BigAdd(BigShift(n.integer_part, n.fractional_digit_count),
                          n.fractional_part))

\* the parser consumed its whole input as a number
ParsedWholeInput ==
    /\ ParserReturned
    /\ number_result.returned.it = Len(number_call.text)
    /\ number_result.returned.it # 0
    /\ ~number_result.returned.guard_fired

\* C5: for every successfully parsed token the double value equals
\* sign * (integer_part + fractional_part / 10^fractional_digit_count), sign
\* being -1 exactly when the sign run ends with '-'; also for negative
\* numbers with a non-zero fractional part.
C5_DoubleValue ==
    ParsedWholeInput =>
        LET n == ReadNumber(number_call.text)
            double_result == number_result.returned.double_result
        IN  /\ double_result.defined
            /\ double_result.exponent = n.fractional_digit_count
            /\ SameValue(StoredTimesPower(double_result), ReadTimesPower(n))

\* the accumulator before its last digit was accumulated
BeforeLastDigit(accumulator) ==
    IF accumulator = << >> THEN << >>
    ELSE SubSeq(accumulator, 1, Len(accumulator) - 1)

\* C7: the whole-part and the fractional accumulator never exceed INT64_MAX at
\* any step of the parser, and a digit is accumulated only onto an accumulator
\* that is <= INT64_MAX / 10 - 10.
C7_AccumulatorsWithinInt64 ==
    ParserCalled =>
        \A accumulator \in { number_result.locals.int_result,
                             number_result.locals.decimal_result } :
            /\ BigLeq(accumulator, INT64_MAX)
            /\ BigLeq(BeforeLastDigit(accumulator), OverflowLimit)

\* the whole part reached the largest value the guard lets through,
\* 9223372036854775709, and the guard refused the digit after it
C7_Witness ==
    /\ ParserCalled
    /\ number_result.locals.int_result = TimesTenPlus(OverflowLimit, 9)
    /\ number_result.locals.returned_begin

-----------------------------------------------------------------------------
(* Properties of NumberAnnotator::FindAll (checked under SpecFindAll) *)

FindAllReturned == number_call.op = "FindAll"

\* FindAll went through its token loop
FindAllRan ==
    /\ FindAllReturned
    /\ ~IsDisabled(number_call.options, number_call.annotation_usecase)

\* the spans the call pushed after what the vector held before it
Pushed(list) == SubSeq(list, Len(number_call.prior) + 1, Len(list))

\* the spans among `spans` that start inside the token
StartingIn(spans, token) ==
    SelectSeq(spans, LAMBDA s : s.span[1] >= token.start /\ s.span[1] < token.end)

\* the span moved by offset codepoints
Shifted(s, offset) ==
    [s EXCEPT !.span = << s.span[1] + offset, s.span[2] + offset >>]

\* what the token loop of FindAll pushes on a text that is the token alone
AloneSpans(token) ==
    LET alone == FindAll(token.value, number_call.annotation_usecase,
                         number_call.options, << >>).parsed
    IN  [i \in 1..Len(alone) |-> Shifted(alone[i], token.start)]

\* C6: when the overflow guard fires in a token's whole or fractional part,
\* ParseNumber fails and FindAll emits no span for that token, while every
\* other token of the text is parsed and annotated as it is without the
\* overflowing token.
C6_OverflowRejectsOnlyToken ==
    FindAllRan =>
        \A token \in Range(TokenizeText(number_call.context)) :
            IF ParseNumber(token.value).guard_fired
            THEN /\ ~ParseNumber(token.value).ok
                 /\ StartingIn(Pushed(number_result.result), token) = << >>
            ELSE /\ StartingIn(Pushed(number_result.parsed), token)
                      = AloneSpans(token)
                 /\ Len(StartingIn(Pushed(number_result.result), token))
                      = Len(AloneSpans(token))

\* the guard fires in one token of the text (25 nines, or "0." and 25 nines)
\* and the other token is annotated
C6_Witness ==
    /\ FindAllRan
    /\ \E token \in Range(TokenizeText(number_call.context)) :
          ParseNumber(token.value).guard_fired
    /\ Len(Pushed(number_result.result)) = 1

\* the codepoints of the percentage suffixes
PercentageSuffixTexts == { UTF8ToUnicodeText(piece) : piece \in PercentageSuffixes }

\* the length in codepoints of the longest percentage suffix that the
\* context continues with at the 0-based codepoint offset, 0 when there is none
LongestSuffixAt(context, offset) ==
    LET matching == { suffix \in PercentageSuffixTexts :
                        /\ offset + Len(suffix) <= Len(context)
                        /\ SubSeq(context, offset + 1, offset + Len(suffix)) = suffix }
    IN  IF matching = {} THEN 0
        ELSE CHOOSE n \in { Len(suffix) : suffix \in matching } :
                 \A suffix \in matching : Len(suffix) <= n

\* what FindPercentages makes of one span
PercentageOf(context, res) ==
    LET match_length == LongestSuffixAt(context, res.span[2])
    IN  IF /\ res.classification # << >>
           /\ res.classification[1].collection = "Number"
           /\ res.span[2] < Len(context)
           /\ match_length > 0
        THEN [span |-> << res.span[1], res.span[2] + match_length >>,
              classification |->
                 << [collection |-> "Percentage",
                     score |-> res.classification[1].score,
                     numeric_value |-> res.classification[1].numeric_value,
                     numeric_double_value |->
                         res.classification[1].numeric_double_value,
                     priority_score |-> "percentage_priority_score"] >>
                 \o Tail(res.classification)]
        ELSE res

\* FindAll went on to FindPercentages
FindPercentagesRan == FindAllRan /\ number_call.options.enable_percentage

\* C8: FindPercentages turns each span whose first classification is "Number"
\* and that is followed, exactly at its end codepoint, by a percentage suffix
\* into a "Percentage" span with percentage_priority_score whose end grows by
\* the longest suffix's length in codepoints, start and numeric values
\* unchanged; every other span is left as it is.
C8_FindPercentages ==
    FindPercentagesRan =>
        /\ Len(number_result.result) = Len(number_result.parsed)
        /\ \A i \in 1..Len(number_result.parsed) :
              number_result.result[i]
                = PercentageOf(number_call.context, number_result.parsed[i])

\* "14 pct" with spans of another annotator in the vector: the Number span
\* grew by the four codepoints of " pct", the other spans are as they were
C8_Witness ==
    /\ FindPercentagesRan
    /\ number_call.prior # << >>
    /\ \E i \in 1..Len(number_result.result) :
          /\ number_result.parsed[i].classification # << >>
          /\ number_result.parsed[i].classification[1].collection = "Number"
          /\ number_result.result[i].classification[1].collection = "Percentage"
          /\ number_result.result[i].span[2] = number_result.parsed[i].span[2] + 4
    /\ \A i \in 1..Len(number_call.prior) :
          number_result.result[i] = number_call.prior[i]

-----------------------------------------------------------------------------
(* Properties of NumberAnnotator::ClassifyText (checked under
   SpecNumberClassify) *)

NumberClassifyReturned == number_call.op = "ClassifyText"

\* the selected substring and its tokens
SelectedText == SpanText(number_call.context, number_call.selection_indices)

SelectedTokens == TokenizeText(SelectedText)

\* the selection stripped of the ignored boundary codepoints
StrippedSelection ==
    StripBoundaryCodepoints(number_call.context, number_call.selection_indices,
                            ignored_prefix_span_boundary_codepoints,
                            ignored_suffix_span_boundary_codepoints)

\* what FindAll finds on the selected substring
FoundInSelection ==
    FindAll(SelectedText, number_call.annotation_usecase, number_call.options,
            << >>).result

\* the positions of the classified spans found in the selection that, shifted
\* by selection.first, coincide at both ends with the stripped selection
Coinciding ==
    { i \in 1..Len(FoundInSelection) :
        /\ FoundInSelection[i].classification # << >>
        /\ FoundInSelection[i].span[1] + number_call.selection_indices[1]
             = StrippedSelection[1]
        /\ FoundInSelection[i].span[2] + number_call.selection_indices[1]
             = StrippedSelection[2] }

\* ClassifyText returns a classification exactly when a found span coincides
\* with the stripped selection, and then the first classification of the
\* first such span
ReturnsCoincidingSpan ==
    /\ number_result.ok <=> Coinciding # {}
    /\ number_result.ok =>
          number_result.classification_result
            = FoundInSelection[CHOOSE i \in Coinciding :
                                  \A j \in Coinciding : i <= j].classification[1]

\* the stripped selection is one token followed by a percentage suffix
NumberAndPercentageSuffix ==
    LET stripped == SpanText(number_call.context, StrippedSelection)
    IN  \E suffix \in PercentageSuffixTexts :
          /\ Len(suffix) < Len(stripped)
          /\ SubSeq(stripped, Len(stripped) - Len(suffix) + 1, Len(stripped))
               = suffix
          /\ Len(TokenizeText(SubSeq(stripped, 1, Len(stripped) - Len(suffix))))
               = 1

\* C9 as stated: ClassifyText returns a classification only for a found span
\* that coincides with the stripped selection, and none for any selection
\* that holds another token besides the number.
C9_ExtraTokenNeverClassified ==
    NumberClassifyReturned =>
        /\ ReturnsCoincidingSpan
        /\ Len(SelectedTokens) >= 2 => ~number_result.ok

\* C9: ClassifyText returns a classification only for a found span that
\* coincides with the stripped selection; a selection of several tokens is
\* classified only as a "Percentage", when percentages are enabled and its
\* other tokens are the percentage suffix after the number (as in "14 pct").
C9_ClassifiesCoincidingSpan ==
    NumberClassifyReturned =>
        /\ ReturnsCoincidingSpan
        /\ (Len(SelectedTokens) >= 2 /\ number_result.ok) =>
              /\ number_call.options.enable_percentage
              /\ number_result.classification_result.collection = "Percentage"
              /\ NumberAndPercentageSuffix

\* a selection of two tokens, the number and "pct", inside a longer text is
\* classified as a percentage
C9_Witness ==
    /\ NumberClassifyReturned
    /\ Len(SelectedTokens) = 2
    /\ Len(TokenizeText(number_call.context)) > 2
    /\ number_result.ok
    /\ number_result.classification_result.collection = "Percentage"

-----------------------------------------------------------------------------
(* Properties of Normalizer::Normalize (checked under SpecNormalize) *)

NormalizeReturned == norm_call.op = "Normalize"

\* C10: whenever the index map is requested, its length after Normalize is
\* the byte length of the returned string plus 1, for every input and
\* whatever the vector held before the call.
C10_IndexMapLength ==
    (NormalizeReturned /\ norm_call.requested) =>
        Len(original_indices) = Len(norm_output) + 1

\* the map was requested in a vector that was not empty, for an input whose
\* last multi-byte sequence is truncated after a character that was kept
C10_Witness ==
    /\ NormalizeReturned
    /\ norm_call.requested
    /\ norm_call.before # << >>
    /\ norm_call.input # << >>
    /\ Utf8CharLength(norm_call.input[Len(norm_call.input)]) > 1
    /\ norm_output # << >>
    /\ Len(original_indices) = Len(norm_output) + 1


\* ---------------------------------------------------------------------
\* C11: normalization with case folding is idempotent
\* ---------------------------------------------------------------------

\* a second case-folding Normalize call, on the output of a first, returned
NormalizedAgain == norm_call.op = "NormalizeAgain"

\* C11: for any input x, Normalize(Normalize(x, fold_case = true), true) =
\* Normalize(x, true): normalizing the output of a case-folding Normalize
\* call again, with case folding, returns that output unchanged
C11_Idempotent == NormalizedAgain => norm_output = norm_call.input


\* ---------------------------------------------------------------------
\* C12: AddEntry with a list of empty n-grams
\* ---------------------------------------------------------------------

\* every n-gram of the list is the empty string (and there is at least one)
OnlyEmptyNgrams(ngrams) ==
    ngrams # << >> /\ \A i \in 1..Len(ngrams) : ngrams[i] = << >>

\* this step is an AddEntry call whose list holds only empty strings
AddsOnlyEmptyNgrams ==
    /\ Len(added') = Len(added) + 1
    /\ OnlyEmptyNgrams(added'[Len(added')])

\* C12: AddEntry with an n-gram list containing only empty strings is a
\* no-op: the entry store and the n-gram index are the same after the call
\* as before it
C12_EmptyNgramsNoOp ==
    [][AddsOnlyEmptyNgrams =>
           /\ entries' = entries
           /\ ngram_to_entry_index' = ngram_to_entry_index]_vars

\* C12 as the code has it: the call leaves the n-gram index as it was and
\* appends the entry to the entry store, where no posting list refers to it
C12_EmptyNgramsKeepIndex ==
    [][AddsOnlyEmptyNgrams =>
           /\ ngram_to_entry_index' = ngram_to_entry_index
           /\ Len(entries') = Len(entries) + 1
           /\ SubSeq(entries', 1, Len(entries)) = entries
           /\ \A k \in DOMAIN ngram_to_entry_index' :
                  \A i \in 1..Len(ngram_to_entry_index'[k]) :
                      ngram_to_entry_index'[k][i] # Len(entries)]_vars

\* a dictionary with indexed n-grams whose last AddEntry call had only
\* empty n-grams
C12_Witness ==
    /\ phase = "build"
    /\ Len(added) = 2
    /\ OnlyEmptyNgrams(added[2])
    /\ ngram_to_entry_index # << >>
    /\ Len(entries) = 2


\* ---------------------------------------------------------------------
\* C13: what AddEntry registers, FindMatches finds
\* ---------------------------------------------------------------------

\* the codepoints without their leading and trailing boundary codepoints
WithoutBoundary(cps) ==
    LET leading == CountLeading(cps, LookupBoundaryCodepoints)
        trailing == CountTrailing(cps, LookupBoundaryCodepoints)
    IN  IF leading + trailing >= Len(cps) THEN << >>
        ELSE SubSeq(cps, leading + 1, Len(cps) - trailing)

\* the codepoints in lower case
FoldedText(cps) == [i \in 1..Len(cps) |-> ToLower(cps[i])]

\* the two texts are equal or differ only in letter case or in surrounding
\* boundary codepoints
SameUpToCaseAndBoundary(t, u) ==
    FoldedText(WithoutBoundary(t)) = FoldedText(WithoutBoundary(u))

\* the n-gram (bytes) is the UTF-8 form of a text
IsTextNgram(g) == ToUTF8String(UTF8ToUnicodeText(g)) = g

\* the stripped, case-folded normalization of an n-gram given to AddEntry
NgramKey(g) ==
    StripBoundaryCodepointsAndNormalize(UTF8ToUnicodeText(g),
        << 0, Len(UTF8ToUnicodeText(g)) >>).text

\* the text of the span FindMatches was called on
QueriedText == SpanText(lookup_call.context, lookup_call.span)

\* FindMatches returned the entry of the k-th AddEntry call
ReturnsEntryOfCall(k) ==
    \E j \in 1..Len(lookup_result.results) :
        lookup_result.results[j]
            = [EntryOfCall(k) EXCEPT !.collection = EngineCollection]

\* C13: after AddEntry(ngrams, e), for every n-gram g of the list whose
\* boundary-stripped normalization is non-empty, FindMatches with
\* max_num_matches at least the length of the n-gram's posting list, on a
\* text span equal to g or differing from it only in letter case or in
\* surrounding boundary codepoints, returns a list containing e
C13_AddedIsFound ==
    FindMatchesReturned =>
        \A k \in 1..Len(added) : \A i \in 1..Len(added[k]) :
            LET g == added[k][i]
            IN  ( /\ IsTextNgram(g)
                  /\ NgramKey(g) # << >>
                  /\ SameUpToCaseAndBoundary(QueriedText, UTF8ToUnicodeText(g))
                  /\ lookup_call.max_num_matches >= Len(LookupPosting) )
                => ReturnsEntryOfCall(k)

\* the first of two entries registered under one n-gram is found through a
\* span that differs from its n-gram in letter case and in a boundary
\* codepoint
C13_Witness ==
    /\ FindMatchesReturned
    /\ Len(added) = 2
    /\ Len(LookupPosting) = 2
    /\ \E i \in 1..Len(added[1]) :
          /\ IsTextNgram(added[1][i])
          /\ NgramKey(added[1][i]) # << >>
          /\ SameUpToCaseAndBoundary(QueriedText, UTF8ToUnicodeText(added[1][i]))
          /\ QueriedText # UTF8ToUnicodeText(added[1][i])
          /\ FoldedText(QueriedText) # FoldedText(UTF8ToUnicodeText(added[1][i]))
          /\ WithoutBoundary(QueriedText) # WithoutBoundary(UTF8ToUnicodeText(added[1][i]))
    /\ lookup_call.max_num_matches >= 2
    /\ ReturnsEntryOfCall(1)


\* ---------------------------------------------------------------------
\* C14: LookupEngine's ClassifyText
\* ---------------------------------------------------------------------

ClassifyReturned == lookup_call.op = "ClassifyText"

\* the stripped, case-folded normalization of the whole selection
SelectionKey ==
    StripBoundaryCodepointsAndNormalize(lookup_call.context,
                                        lookup_call.selection_indices).text

\* the AddEntry calls that registered their entry under the n-gram key
RegisteredUnder(key) ==
    { k \in 1..Len(added) :
        \E i \in 1..Len(added[k]) :
            /\ added[k][i] # << >>
            /\ is_valid(added[k][i])
            /\ NgramKey(added[k][i]) = key }

\* the least element of a non-empty set of numbers
Earliest(S) == CHOOSE k \in S : \A other \in S : k <= other

\* C14: ClassifyText returns at most one result: the earliest-added entry
\* registered under the n-gram equal to the stripped, case-folded
\* normalization of the whole selection; it returns nothing when no n-gram
\* matches the whole stripped selection, as when the selection only
\* overlaps an n-gram or properly contains one
C14_ClassifyEarliestWhole ==
    ClassifyReturned =>
        LET calls == IF SelectionKey = << >> THEN {}
                     ELSE RegisteredUnder(SelectionKey)
        IN  IF calls = {}
            THEN lookup_result = [ok |-> FALSE]
            ELSE lookup_result
                   = [ok |-> TRUE,
                      classification_result |->
                          [EntryOfCall(Earliest(calls))
                               EXCEPT !.collection = EngineCollection]]

\* two entries are registered under the n-gram of the selection, which is
\* written in another case and with a boundary codepoint, and the first is
\* returned
C14_Witness ==
    /\ ClassifyReturned
    /\ RegisteredUnder(SelectionKey) = { 1, 2 }
    /\ ToUTF8String(SpanText(lookup_call.context, lookup_call.selection_indices))
           # SelectionKey
    /\ lookup_result.ok
    /\ lookup_result.classification_result.id = 1


\* ---------------------------------------------------------------------
\* C15: concurrent queries on the frozen dictionary
\* ---------------------------------------------------------------------

RECURSIVE BuiltIndex(_, _)
\* the n-gram index after the first n AddEntry calls of the history
BuiltIndex(lists, n) ==
    IF n = 0 THEN << >>
    ELSE AddNgrams(BuiltIndex(lists, n - 1), lists[n], n - 1)

\* the entry store after the AddEntry calls of the history
BuiltEntries(lists) == [k \in 1..Len(lists) |-> EntryOfCall(k)]

\* the build phase is over: some thread has entered a query
Frozen == phase = "query"

\* C15: once the build phase is over, no query changes the entry store or
\* the n-gram index (they stay what the AddEntry calls built; a lookup of
\* an absent n-gram inserts nothing), and the buffers of a call are its
\* own; so under any interleaving of concurrent queries each query returns
\* what it returns when it runs alone on the frozen dictionary
C15_ConcurrentQueries ==
    Frozen =>
        /\ entries = BuiltEntries(added)
        /\ ngram_to_entry_index = BuiltIndex(added, Len(added))
        /\ \A t \in DOMAIN queries :
              queries[t].pc = "returned" =>
                  queries[t].results
                    = FindMatches(BuiltEntries(added),
                                  BuiltIndex(added, Len(added)),
                                  queries[t].max_num_matches,
                                  queries[t].context, queries[t].span).results

\* one thread has returned two entries while another, which started on the
\* same n-gram, is inside its loop with one entry collected
C15_Witness ==
    /\ Frozen
    /\ DOMAIN queries = Threads
    /\ queries[1].pc = "returned"
    /\ Len(queries[1].results) = 2
    /\ queries[2].pc = "loop"
    /\ queries[2].token = queries[1].token
    /\ Len(queries[2].results) = 1


\* ---------------------------------------------------------------------
\* C16: AddEntry skips an n-gram and goes on with the next
\* ---------------------------------------------------------------------

\* AddEntry skips the n-gram: it is empty, not valid UTF-8, or its stripped
\* normalization is empty
IsSkippedNgram(g) == g = << >> \/ ~is_valid(g) \/ NgramKey(g) = << >>

\* the n-gram list without the n-grams AddEntry skips
WithoutSkipped(ngrams) == SelectSeq(ngrams, LAMBDA g : ~IsSkippedNgram(g))

\* the history with the skipped n-grams removed from every list
HistoryWithoutSkipped == [k \in 1..Len(added) |-> WithoutSkipped(added[k])]

\* C16: AddEntry handles each n-gram on its own: an n-gram that is empty,
\* not valid UTF-8, or empty after stripping and normalization is skipped,
\* every other n-gram of the list is still indexed, and the resulting index
\* equals the one obtained by calling AddEntry with the skipped n-grams
\* removed
C16_SkippedNgramsRemoved ==
    /\ ngram_to_entry_index
         = BuiltIndex(HistoryWithoutSkipped, Len(added))
    /\ \A k \in 1..Len(added) : \A i \in 1..Len(added[k]) :
          ~IsSkippedNgram(added[k][i]) =>
              /\ NgramKey(added[k][i]) \in DOMAIN ngram_to_entry_index
              /\ k - 1 \in Range(ngram_to_entry_index[NgramKey(added[k][i])])

\* a list with an empty n-gram and an invalid one between indexed n-grams,
\* and a list with n-grams of boundary codepoints around an indexed one,
\* have been added
C16_Witness ==
    /\ Len(added) = 2
    /\ \E i \in 1..Len(added[1]) : added[1][i] = << >>
    /\ \E i \in 1..Len(added[1]) : ~is_valid(added[1][i])
    /\ \E i \in 2..Len(added[1]) : ~IsSkippedNgram(added[1][i])
    /\ \E i \in 1..Len(added[2]) :
          added[2][i] # << >> /\ NgramKey(added[2][i]) = << >>
    /\ DOMAIN ngram_to_entry_index = { << 121 >>, << 110 >> }


\* ---------------------------------------------------------------------
\* C17: a token without a digit
\* ---------------------------------------------------------------------

\* the text holds no ASCII digit, so the parser can consume none
HasNoDigit(text) == \A i \in 1..Len(text) : ~IsAsciiDigit(text[i])

\* C17: if no ASCII digit is consumed (the token holds only signs and/or a
\* '.' or ',' separator, say), parsing fails and FindAll emits no span for
\* the token
C17_NoDigitNoSpan ==
    FindAllRan =>
        \A token \in Range(TokenizeText(number_call.context)) :
            HasNoDigit(token.value) =>
                /\ ~ParseNumber(token.value).ok
                /\ StartingIn(Pushed(number_result.result), token) = << >>

\* ---------------------------------------------------------------------
\* C18: an invalid trailing codepoint
\* ---------------------------------------------------------------------

\* the token reads as a number (after the ignored boundary codepoints and
\* the allowed prefix: signs, digits, and digits after a separator, with at
\* least one digit) followed in the token by a codepoint that is neither an
\* allowed suffix nor an ignored suffix boundary codepoint
HasInvalidTrailingCodepoint(text) ==
    LET stripped == StripBoundaryCodepoints(text, << 0, Len(text) >>,
                        ignored_prefix_span_boundary_codepoints,
                        ignored_suffix_span_boundary_codepoints)
        body == SpanText(text, stripped)
        prefix == RunLength(body, 0, allowed_prefix_codepoints)
        signs == RunLength(body, prefix, { 45, 43 })
        whole == RunLength(body, prefix + signs, 48..57)
        separated == /\ prefix + signs + whole < Len(body)
                     /\ IsSeparator(body[prefix + signs + whole + 1])
        fractional == IF separated
                      THEN RunLength(body, prefix + signs + whole + 1, 48..57)
                      ELSE 0
        number_end == prefix + signs + whole
                         + (IF separated THEN 1 + fractional ELSE 0)
    IN  /\ whole + fractional > 0
        /\ \E i \in (number_end + 1)..Len(body) :
              /\ body[i] \notin allowed_suffix_codepoints
              /\ body[i] \notin ignored_suffix_span_boundary_codepoints

\* C18: when a number is followed within its token by a codepoint that is
\* neither an allowed suffix nor an ignored suffix boundary codepoint,
\* ParseNumber rejects the whole token and FindAll emits no span for it;
\* the other tokens of the text are annotated as they are without it
C18_InvalidSuffixRejectsToken ==
    FindAllRan =>
        \A token \in Range(TokenizeText(number_call.context)) :
            HasInvalidTrailingCodepoint(token.value) =>
                /\ ~ParseNumber(token.value).ok
                /\ StartingIn(Pushed(number_result.result), token) = << >>
                /\ \A other \in Range(TokenizeText(number_call.context)) :
                      other # token =>
                          StartingIn(Pushed(number_result.parsed), other)
                              = AloneSpans(other)

\* "3%a", whose invalid codepoint comes after an allowed suffix, is followed
\* by a token that is annotated
C18_Witness ==
    /\ FindAllRan
    /\ Len(TokenizeText(number_call.context)) = 2
    /\ TokenizeText(number_call.context)[1].value = << 51, 37, 97 >>
    /\ HasInvalidTrailingCodepoint(TokenizeText(number_call.context)[1].value)
    /\ Len(Pushed(number_result.result)) = 1
    /\ Pushed(number_result.result)[1].span[1]
           >= TokenizeText(number_call.context)[2].start

\* ---------------------------------------------------------------------
\* C20: the supported range
\* ---------------------------------------------------------------------

\* the number of decimal digits of 999 999 999
SupportedDigits == 9

\* the integer lies in [-999 999 999, 999 999 999]
InSupportedRange(int_value) == Len(int_value.digits) <= SupportedDigits

\* C20: NumberAnnotator only supports values in the range
\* [-999 999 999, 999 999 999]: every Number or Percentage classification
\* it emits has its numeric_value within this range, a token whose value
\* lies outside it not being annotated
C20_SupportedRange ==
    FindAllRan =>
        \A i \in 1..Len(Pushed(number_result.result)) :
            \A j \in 1..Len(Pushed(number_result.result)[i].classification) :
                InSupportedRange(
                    Pushed(number_result.result)[i].classification[j].numeric_value)


\* ---------------------------------------------------------------------
\* C19: Normalize on invalid or truncated UTF-8
\* ---------------------------------------------------------------------

RECURSIVE FirstInvalidOffset(_, _)
\* the 0-based offset of the first invalid byte met when the input is read
\* character by character from offset i: a continuation byte where a lead
\* byte is expected, or a lead byte whose encoded length extends past the
\* end of the input; Len(input) when there is none
FirstInvalidOffset(input, i) ==
    IF i >= Len(input) THEN Len(input)
    ELSE IF IsTrailByte(input[i + 1]) THEN i
    ELSE IF i + GetNumBytesForUTF8Char(input[i + 1]) > Len(input) THEN i
    ELSE FirstInvalidOffset(input, i + GetNumBytesForUTF8Char(input[i + 1]))

\* the input of the call holds an invalid byte
MeetsInvalidByte ==
    /\ NormalizeReturned
    /\ FirstInvalidOffset(norm_call.input, 0) < Len(norm_call.input)

\* the first invalid byte of the input is a continuation byte
MeetsContinuationByte ==
    /\ MeetsInvalidByte
    /\ IsTrailByte(norm_call.input[FirstInvalidOffset(norm_call.input, 0) + 1])

\* the input before, and after, its first invalid byte
BeforeInvalid ==
    SubSeq(norm_call.input, 1, FirstInvalidOffset(norm_call.input, 0))

AfterInvalid ==
    SubSeq(norm_call.input, FirstInvalidOffset(norm_call.input, 0) + 2,
           Len(norm_call.input))

\* C19: when Normalize meets invalid or truncated UTF-8 (a lead byte whose
\* encoded length extends past the end of the input, or a continuation
\* byte where a lead byte is expected) it truncates the output at that
\* point: the output is the normalization of the input before the invalid
\* byte, with nothing from the invalid byte or from the input after it
C19_TruncatesAtInvalid ==
    MeetsInvalidByte =>
        norm_output = NormalizeText(BeforeInvalid, norm_call.fold_case)

\* C19 as the code has it: the output is truncated at a lead byte whose
\* encoded length extends past the end of the input; a continuation byte
\* where a lead byte is expected is taken as a character of one byte, which
\* is normalized into the output, and the input after it is normalized too
C19_TruncatesAtCutLead ==
    MeetsInvalidByte =>
        IF MeetsContinuationByte
        THEN /\ norm_output
                  = NormalizeText(BeforeInvalid, norm_call.fold_case)
                    \o NormalizeText(
                          << norm_call.input[
                                 FirstInvalidOffset(norm_call.input, 0) + 1] >>,
                          norm_call.fold_case)
                    \o NormalizeText(AfterInvalid, norm_call.fold_case)
             /\ Len(norm_output)
                  > Len(NormalizeText(BeforeInvalid, norm_call.fold_case))
        ELSE norm_output = NormalizeText(BeforeInvalid, norm_call.fold_case)

\* a continuation byte between two characters that are both normalized into
\* the output
C19_Witness ==
    /\ MeetsContinuationByte
    /\ BeforeInvalid # << >>
    /\ NormalizeText(AfterInvalid, norm_call.fold_case) # << >>
    /\ Len(norm_output) >= 3


\* ---------------------------------------------------------------------
\* C21: the spans of one FindAll call are ordered and do not overlap
\* ---------------------------------------------------------------------

\* the spans of the list start in strictly increasing order
IncreasingStarts(list) ==
    \A i \in 1..(Len(list) - 1) : list[i].span[1] < list[i + 1].span[1]

\* no two spans of the list share a codepoint
PairwiseDisjoint(list) ==
    \A i \in 1..Len(list) : \A j \in (i + 1)..Len(list) :
        \/ list[i].span[2] <= list[j].span[1]
        \/ list[j].span[2] <= list[i].span[1]

\* C21: the spans appended by one FindAll call are ordered by increasing
\* start and pairwise non-overlapping, also after the percentage pass has
\* extended span ends, for every token sequence and every percentage
\* suffix table
C21_OrderedDisjointSpans ==
    FindAllRan =>
        /\ IncreasingStarts(Pushed(number_result.result))
        /\ PairwiseDisjoint(Pushed(number_result.result))


\* ---------------------------------------------------------------------
\* C22: FindAll when the annotator is disabled
\* ---------------------------------------------------------------------

\* the usecases whose bit is set in the mask
UsecasesOf(mask) == { u \in 0..1 : (mask \div (2 ^ u)) % 2 = 1 }

\* annotation is disabled in the configuration, or the bit of the call's
\* usecase is not set in enabled_annotation_usecases
CalledDisabled ==
    /\ FindAllReturned
    /\ \/ ~number_call.options.enabled
       \/ number_call.annotation_usecase
              \notin UsecasesOf(number_call.options.enabled_annotation_usecases)

\* C22: FindAll is a no-op when annotation is disabled in the configuration
\* or when bit (1 << usecase) is not set in enabled_annotation_usecases: it
\* returns success, leaves the caller's result list exactly as it was, and
\* performs neither number parsing nor the percentage pass (entries already
\* in the list are not upgraded)
C22_DisabledIsNoOp ==
    CalledDisabled =>
        /\ number_result.ok
        /\ number_result.parsed = number_call.prior
        /\ number_result.result = number_call.prior

\* the usecase's bit is not set, the text holds the number "14" after "7%",
\* and the Number span [0, 1) already in the list, which the percentage
\* pass would extend over the "%", is left as it was
C22_Witness ==
    /\ CalledDisabled
    /\ number_call.options.enabled
    /\ number_call.options.enable_percentage
    /\ number_call.context = << 55, 37, 32, 49, 52 >>
    /\ Len(number_call.prior) = 2
    /\ number_call.prior[1] = PriorNumberSpan(<< 0, 1 >>)
    /\ number_result.result = number_call.prior
    /\ UpgradeToPercentage(number_call.options.percentage_pieces,
                           number_call.context, number_call.prior[1])
           # number_call.prior[1]


\* ---------------------------------------------------------------------
\* C23, C24: the posting lists and the entry store after AddEntry calls
\* ---------------------------------------------------------------------

\* the list of numbers increases strictly
StrictlyIncreasing(list) ==
    \A i \in 1..Len(list) : \A j \in (i + 1)..Len(list) : list[i] < list[j]

\* the number of n-grams of the list that AddEntry files under the key
TimesFiledUnder(ngrams, key) ==
    Cardinality({ i \in 1..Len(ngrams) :
                    ~IsSkippedNgram(ngrams[i]) /\ NgramKey(ngrams[i]) = key })

\* C23: after any sequence of AddEntry calls every posting list is strictly
\* increasing in entry index, so no entry index occurs twice in a posting
\* list, even when the same n-gram, or several n-grams that normalize to
\* the same key, occur repeatedly and non-adjacently in one call's list
C23_PostingListsIncrease ==
    \A key \in DOMAIN ngram_to_entry_index :
        StrictlyIncreasing(ngram_to_entry_index[key])

\* two calls whose lists file "n" and "y" twice each, with other n-grams in
\* between: each posting list holds each call once
C23_Witness ==
    /\ Len(added) = 2
    /\ TimesFiledUnder(added[1], << 110 >>) = 2
    /\ TimesFiledUnder(added[1], << 121 >>) = 2
    /\ TimesFiledUnder(added[2], << 110 >>) = 2
    /\ ngram_to_entry_index[<< 110 >>] = << 0, 1 >>
    /\ ngram_to_entry_index[<< 121 >>] = << 0, 1 >>

\* C24: each AddEntry call appends exactly one entry to the entry store
\* whatever its n-gram list holds (an empty list, only empty or invalid
\* n-grams, or many n-grams): after n calls the store holds the n entries in
\* call order, earlier entries being neither modified nor reordered, and
\* every index stored in a posting list is a valid position
\* (0 <= index < store size)
C24_OneEntryPerCall ==
    /\ Len(entries) = Len(added)
    /\ \A k \in 1..Len(added) : entries[k] = EntryOfCall(k)
    /\ \A key \in DOMAIN ngram_to_entry_index :
          \A i \in 1..Len(ngram_to_entry_index[key]) :
              /\ 0 <= ngram_to_entry_index[key][i]
              /\ ngram_to_entry_index[key][i] < Len(entries)

\* a call with the empty list, then a call with many n-grams: two entries,
\* and the posting lists hold the second position only
C24_Witness ==
    /\ Len(added) = 2
    /\ added[1] = << >>
    /\ Len(added[2]) > 2
    /\ Len(entries) = 2
    /\ ngram_to_entry_index # << >>
    /\ \A key \in DOMAIN ngram_to_entry_index :
          ngram_to_entry_index[key] = << 1 >>


\* ---------------------------------------------------------------------
\* C25: the span Chunk records for a winning window
\* ---------------------------------------------------------------------

\* the window's codepoint span without the boundary codepoints at its ends
StrippedWindowSpan(s, e) ==
    LET text == SpanText(lookup_call.context, WindowSpan(s, e))
    IN  << WindowSpan(s, e)[1] + CountLeading(text, LookupBoundaryCodepoints),
           WindowSpan(s, e)[2] - CountTrailing(text, LookupBoundaryCodepoints) >>

\* C25: the AnnotatedSpan that Chunk records for a winning window [s, e)
\* has span exactly [tokens[s].start, tokens[e-1].end), the codepoint span
\* built for that window
C25_SpanIsWindowSpan ==
    ChunkReturned =>
        /\ Len(lookup_result.result) = Len(Wins)
        /\ \A i \in 1..Len(Wins) :
              lookup_result.result[i].span
                  = WindowSpan(Wins[i].start, Wins[i].end)

\* C25 as the code has it: the recorded span is the window's span after
\* FindMatches stripped the boundary codepoints from its ends; it lies in
\* the window's span and is that span when no boundary codepoint stands at
\* either end
C25_SpanIsStrippedWindow ==
    ChunkReturned =>
        /\ Len(lookup_result.result) = Len(Wins)
        /\ \A i \in 1..Len(Wins) :
              LET window == WindowSpan(Wins[i].start, Wins[i].end)
                  recorded == lookup_result.result[i].span
              IN  /\ recorded = StrippedWindowSpan(Wins[i].start, Wins[i].end)
                  /\ window[1] <= recorded[1]
                  /\ recorded[1] < recorded[2]
                  /\ recorded[2] <= window[2]
                  /\ ( /\ lookup_call.context[window[1] + 1]
                              \notin LookupBoundaryCodepoints
                       /\ lookup_call.context[window[2]]
                              \notin LookupBoundaryCodepoints )
                         => recorded = window

\* a window of two tokens won whose last token ends with a boundary
\* codepoint: the recorded span ends before it
C25_Witness ==
    /\ ChunkReturned
    /\ \E i \in 1..Len(Wins) :
          /\ Wins[i].end = Wins[i].start + 2
          /\ lookup_result.result[i].span[2]
                 = WindowSpan(Wins[i].start, Wins[i].end)[2] - 1
          /\ lookup_result.result[i].span[1]
                 = WindowSpan(Wins[i].start, Wins[i].end)[1]


\* ---------------------------------------------------------------------
\* C26: the fractional denominator
\* ---------------------------------------------------------------------

\* C26: in PARSING_FLOATING_PART the fractional denominator (multiplied by
\* 10 for each fractional digit consumed) never exceeds INT64_MAX for any
\* token, fractions with many leading zeros included: the overflow guard
\* on the fractional accumulator also bounds the number of fractional
\* digits
C26_DenominatorWithinInt64 ==
    ParserCalled =>
        number_result.locals.denominator_exponent <= MaxDenominatorExponent


\* ---------------------------------------------------------------------
\* C27: the parser's state only moves forward
\* ---------------------------------------------------------------------

\* the number of '.' and ',' among the codepoints of the text between the
\* offsets from and to
SeparatorsBetween(text, from, to) ==
    Cardinality({ i \in (from + 1)..to : IsSeparator(text[i]) })

\* the step from the locals p to the locals q of the parser on text
MovesForward(text, p, q) ==
    /\ q.state >= p.state
    /\ (q.state = PARSING_FLOATING_PART /\ p.state # PARSING_FLOATING_PART)
          => /\ p.state = PARSING_WHOLE_PART
             /\ IsSeparator(text[p.it + 1])
             /\ q.it = p.it + 1
    /\ q.state = PARSING_DONE => q.it = p.it
    /\ q.it >= p.it
    /\ SeparatorsBetween(text, q.it_begin, q.it) <= 1
    /\ (q.state = PARSING_WHOLE_PART)
          => SeparatorsBetween(text, q.it_begin, q.it) = 0

\* C27: the number parser's state only moves forward along
\* PARSING_WHOLE_PART -> PARSING_FLOATING_PART -> PARSING_DONE:
\* PARSING_FLOATING_PART is entered only from PARSING_WHOLE_PART on '.' or
\* ',', no transition returns to an earlier state, and nothing is consumed
\* once PARSING_DONE is reached; hence at most one separator is consumed per
\* token and a second '.' or ',' ends the numeric run
C27_StateMovesForward ==
    [][(ParserCalled /\ ParserCalled') =>
           MovesForward(number_call.text, number_result.locals,
                        number_result'.locals)]_vars

\* the parser stopped, in PARSING_DONE, on a second separator that is
\* followed by a digit, after a whole part, a separator and a fraction
C27_Witness ==
    /\ ParserReturned
    /\ number_result.locals.state = PARSING_DONE
    /\ number_result.locals.it + 1 < Len(number_call.text)
    /\ IsSeparator(number_call.text[number_result.locals.it + 1])
    /\ IsAsciiDigit(number_call.text[number_result.locals.it + 2])
    /\ SeparatorsBetween(number_call.text, 0, number_result.locals.it) = 1
    /\ number_result.locals.int_result # << >>
    /\ number_result.locals.decimal_result # << >>
    /\ number_result.returned.it = number_result.locals.it


-----------------------------------------------------------------------------
(* The classification FindAll pushes (checked under SpecFindAll) *)

\* the codepoints of the context that the span covers
CoveredText(s) == SubSeq(number_call.context, s.span[1] + 1, s.span[2])

\* a '.' or ',' occurs in the text
HasSeparator(text) == \E k \in 1..Len(text) : IsSeparator(text[k])

\* a '.' or ',' directly followed by a digit occurs in the text
HasFractionDigit(text) ==
    \E k \in 1..(Len(text) - 1) :
        IsSeparator(text[k]) /\ IsAsciiDigit(text[k + 1])

\* the span carries one classification, of collection "Number" with the
\* configured score
IsNumberClassification(s) ==
    /\ Len(s.classification) = 1
    /\ s.classification[1].collection = "Number"
    /\ s.classification[1].score = "score"

\* C28: a classification pushed by FindAll's token loop has collection
\* "Number" and the configured score, and its priority score is
\* float_number_priority_score exactly when a '.' or ',' separator is present
\* in the number the span covers, and priority_score otherwise.
C28_FloatPriorityIffSeparator ==
    FindAllRan =>
        \A i \in 1..Len(Pushed(number_result.parsed)) :
            LET s == Pushed(number_result.parsed)[i]
            IN  /\ IsNumberClassification(s)
                /\ s.classification[1].priority_score
                     = IF HasSeparator(CoveredText(s))
                       THEN "float_number_priority_score"
                       ELSE "priority_score"

\* C28 (amended): a classification pushed by FindAll's token loop has
\* collection "Number" and the configured score, and its priority score is
\* float_number_priority_score exactly when a digit follows the separator in
\* the number the span covers, and priority_score otherwise: a separator
\* that no digit follows ("3,") leaves priority_score.
C28_FloatPriorityIffFractionDigit ==
    FindAllRan =>
        \A i \in 1..Len(Pushed(number_result.parsed)) :
            LET s == Pushed(number_result.parsed)[i]
            IN  /\ IsNumberClassification(s)
                /\ s.classification[1].priority_score
                     = IF HasFractionDigit(CoveredText(s))
                       THEN "float_number_priority_score"
                       ELSE "priority_score"

\* FindAll pushed a span for "3," with priority_score and a span for "-3.5"
\* with float_number_priority_score
C28_Witness ==
    /\ FindAllRan
    /\ \E i, j \in 1..Len(Pushed(number_result.parsed)) :
          LET s == Pushed(number_result.parsed)[i]
              t == Pushed(number_result.parsed)[j]
          IN  /\ CoveredText(s) = << 51, 44 >>
              /\ s.classification[1].priority_score = "priority_score"
              /\ CoveredText(t) = << 45, 51, 46, 53 >>
              /\ t.classification[1].priority_score
                   = "float_number_priority_score"


-----------------------------------------------------------------------------
(* The span FindAll pushes for a token (checked under SpecFindAll) *)

\* the tokens of the call's context that ParseNumber accepts, in text order
AcceptedTokens ==
    SelectSeq(TokenizeText(number_call.context),
              LAMBDA token : ParseNumber(token.value).ok)

\* the span is not empty and lies inside the token
InsideToken(span, token) ==
    /\ token.start <= span[1]
    /\ span[1] < span[2]
    /\ span[2] <= token.end

\* C29: every span FindAll's token loop pushes is non-empty and lies inside
\* its token, token.start <= span.first < span.second <= token.end: the
\* prefix and suffix codepoints that ParseNumber counts never add up to the
\* token's length.
C29_SpanInsideToken ==
    FindAllRan =>
        /\ Len(Pushed(number_result.parsed)) = Len(AcceptedTokens)
        /\ \A i \in 1..Len(AcceptedTokens) :
              LET token == AcceptedTokens[i]
                  parsed == ParseNumber(token.value)
              IN  /\ Len(token.value) = token.end - token.start
                  /\ InsideToken(Pushed(number_result.parsed)[i].span, token)
                  /\ parsed.num_prefix_codepoints + parsed.num_suffix_codepoints
                       < Len(token.value)

\* FindAll pushed the span of the "3" of a token "($3)" that is not the
\* first token of the text: two codepoints after its start, one before its
\* end
C29_Witness ==
    /\ FindAllRan
    /\ \E i \in 1..Len(AcceptedTokens) :
          /\ i <= Len(Pushed(number_result.parsed))
          /\ AcceptedTokens[i].value = << 40, 36, 51, 41 >>
          /\ AcceptedTokens[i].start > 0
          /\ Pushed(number_result.parsed)[i].span
               = << AcceptedTokens[i].start + 2, AcceptedTokens[i].end - 1 >>


-----------------------------------------------------------------------------
(* The index map of Normalize (checked under SpecNormalize) *)

RECURSIVE CharacterStarts(_, _)
\* the byte offsets, from `start` on, at which the characters of the input
\* begin: each is as long as its first byte says, and the last one ends
\* within the input
CharacterStarts(input, start) ==
    IF start >= Len(input) THEN {}
    ELSE IF start + Utf8CharLength(input[start + 1]) > Len(input) THEN {}
    ELSE { start } \cup
         CharacterStarts(input, start + Utf8CharLength(input[start + 1]))

\* the character of the input that begins at the byte offset start
CharacterAt(input, start) ==
    SubSeq(input, start + 1, start + Utf8CharLength(input[start + 1]))

\* the positions of the output that the index map sends to the offset start
MappedTo(start) ==
    { i \in 1..Len(norm_output) : original_indices[i] = start }

\* the bytes of the output at the positions that the map sends to start
OutputOf(start) ==
    LET positions == MappedTo(start)
        first == CHOOSE i \in positions : \A j \in positions : i <= j
    IN  [k \in 1..Cardinality(positions) |-> norm_output[first + k - 1]]

\* C30: the index map that Normalize produces is non-decreasing; entry i,
\* for each output byte i, is the byte offset in the input of the first byte
\* of the input character that produced output byte i, all output bytes of
\* one input character sharing that offset; and the final entry is the
\* input's byte length, also when the output was truncated before the end
\* of the input.
C30_IndexMapOffsets ==
    (NormalizeReturned /\ norm_call.requested) =>
        /\ Len(original_indices) = Len(norm_output) + 1
        /\ \A i \in 1..Len(norm_output) :
              /\ original_indices[i] <= original_indices[i + 1]
              /\ original_indices[i]
                   \in CharacterStarts(norm_call.input, 0)
        /\ \A start \in CharacterStarts(norm_call.input, 0) :
              OutputOf(start)
                = NormalizedChars(CharacterAt(norm_call.input, start),
                                  norm_call.fold_case)
        /\ original_indices[Len(original_indices)] = Len(norm_call.input)

\* the input ends with a lead byte whose character is cut off, after a
\* character that was kept: the map of the shorter output ends with the
\* input's length
C30_Witness ==
    /\ NormalizeReturned
    /\ norm_call.requested
    /\ norm_call.input = << 195, 137, 195 >>
    /\ norm_output = << 69 >>
    /\ original_indices = << 0, 3 >>

====
